---- MODULE Spec2Model ----
(***************************************************************************)
(* Transport / playback state machine of the FRNK tape-deck player         *)
(* (FRNK Player V3, modules_v2): AudioPlayer, TransportControls, UIManager,*)
(* AnimationManager and TimerDisplay, together with the parts of the Web   *)
(* Audio context they rely on (context state, audio clock, source nodes).  *)
(*                                                                         *)
(* Units.  The audio clock advances in whole ticks.  Playback rates are    *)
(* written in fifths, so that 0.8x, 1x, 1.2x and 10x are the integers      *)
(* 4, 5, 6 and 50; positions and durations are in the matching unit        *)
(* (ticks * fifths), which keeps elapsed * playbackRate * direction exact. *)
(***************************************************************************)
EXTENDS Integers, Sequences, FiniteSets, Bags, TLC

VARIABLES
    \* AudioPlayer fields
    isPlaying, playbackRate, direction, currentPosition, startTime,
    currentSongKey, sourceNode, fastWindTapeSource,
    \* AudioContext: state, clock, pending resume() continuations, live nodes
    ctxState, currentTime, pendingResume, orphans, windSources,
    \* TransportControls / DOM
    active, stopClickTimeout, timerArmed, selectorValue,
    \* AnimationManager, TimerDisplay
    isAnimating, animRate, animDir, intervalId,
    \* AnimationManager: spool angles, animationFrameId, lastTimestamp, and
    \* the display: callbacks awaiting the next refresh, its timestamp
    animation,
    \* TimerDisplay: the setInterval timers that have not been cleared
    intervals,
    \* AudioProcessor.masterGain.gain.value; the master volume slider's value
    masterGain, sliderValue,
    \* the AudioBuffer objects of the context by reference, and the
    \* references held by the caller of createReversedBuffer
    bufferStore, bufferRefs,
    \* asset loading: AudioPlayer.audioBuffers (keys holding a buffer), the
    \* two initialize() calls, transport buttons, listeners, loading screen
    audioBuffers, loads, buttonsDisabled, listenersAttached, loadingMessage,
    \* SoundEffects: effectsEnabled, the started flags of effectStates, the
    \* connections of the effect graph, the registered sounds other than the
    \* main sources; EffectControls: the buttons' active class
    effectsEnabled, effectStates, connections, activeSources, effectButtons,
    \* observable effects of the handler that ran last
    trace,
    \* play/stop leg: start position, rate, direction, stopwatch, phase
    legP, legR, legD, legT, legPhase,
    \* a Stop gesture has been resolved and no transport button pressed since
    stopResolved

vars == << isPlaying, playbackRate, direction, currentPosition, startTime,
           currentSongKey, sourceNode, fastWindTapeSource,
           ctxState, currentTime, pendingResume, orphans, windSources,
           active, stopClickTimeout, timerArmed, selectorValue,
           isAnimating, animRate, animDir, intervalId, animation,
           intervals, masterGain, sliderValue, bufferStore, bufferRefs,
           audioBuffers, loads, buttonsDisabled, listenersAttached,
           loadingMessage,
           effectsEnabled, effectStates, connections, activeSources,
           effectButtons, trace,
           legP, legR, legD, legT, legPhase, stopResolved >>

legVars == << legP, legR, legD, legT, legPhase >>

(***************************************************************************)
(* Bounds of the model                                                     *)
(***************************************************************************)
\* last tick of the audio clock
MaxTime == 2
\* main source nodes that may exist (live or awaited) at one time
MaxSources == 2
\* duration of song_1 and of song_2, in position units
Dur1 == 60
Dur2 == 40

(***************************************************************************)
(* Program constants                                                       *)
(***************************************************************************)
\* a rate of n/d times normal speed, in fifths
X(n, d) == (n * 5) \div d

\* <option value="0.8">, "1", "1.2" of the playback speed selector
SpeedOptions == { X(8, 10), X(1, 1), X(12, 10) }

\* the rate of handleRewindClick / handleFastForwardClick
FastRate == X(10, 1)

\* the default playbackRate, and the threshold of the winding sound
NormalRate == X(1, 1)

Songs == { "song_1", "song_2" }

\* the assets initialize() loads, and the keys of audioBuffers once a load
\* and the reversal of the songs have completed
AudioPaths == Songs \cup { "buttonPress", "stopButtonPress", "fastWindTape",
                           "resetButtonPress" }
Reversed(k) == IF k = "song_1" THEN "song_1_reversed" ELSE "song_2_reversed"
AllBuffers == AudioPaths \cup { Reversed(k) : k \in Songs }

Buttons == { "play", "rewind", "fastForward" }

NoSource == 0

\* gains and volumes in tenths: Unity is the gain value 1
Unity == 10

\* this.sourceNode: null, or an AudioBufferSourceNode with the buffer time it
\* has left (rem), its playbackRate and its outputs (out); a node is created
\* unstarted
NullNode == [ state |-> "null", rem |-> 0, rate |-> 0,
              out |-> [ dry |-> 0, peakingFilter |-> FALSE,
                        delayNode |-> FALSE ] ]

\* buffer left after one tick of the audio clock
Advance(n) == [n EXCEPT !.rem = IF @ > n.rate THEN @ - n.rate ELSE 0]

\* a started node that no field refers to keeps its playbackRate for good,
\* so all that is left to know of it is the number of clock ticks until its
\* buffer runs out (left) and its outputs (out); Later stands for every
\* number beyond the modelled clock
Later == 0 - 1

TicksLeft(n, now) ==
    LET t == (n.rem + n.rate - 1) \div n.rate
    IN  IF t > MaxTime - now THEN Later ELSE t

AdvanceOrphan(o) ==
    [o EXCEPT !.left = IF @ = Later \/ @ = 0 THEN @ ELSE @ - 1]

\* the bag B of orphaned nodes with every node advanced by one tick
AdvanceAll(B) ==
    LET img == { AdvanceOrphan(o) : o \in DOMAIN B }
    IN  [ m \in img |->
            Cardinality({ p \in (DOMAIN B) \X (1..MaxSources) :
                            AdvanceOrphan(p[1]) = m /\ p[2] <= B[p[1]] }) ]

Duration(songKey) == IF songKey = "song_1" THEN Dur1 ELSE Dur2

MaxOf(a, b) == IF a > b THEN a ELSE b
MinOf(a, b) == IF a < b THEN a ELSE b

(***************************************************************************)
(* The whole program state as one record, threaded through the handlers.   *)
(* thrown is the pending exception of the running handler.                 *)
(***************************************************************************)
World ==
    [ isPlaying |-> isPlaying, playbackRate |-> playbackRate,
      direction |-> direction, currentPosition |-> currentPosition,
      startTime |-> startTime, currentSongKey |-> currentSongKey,
      sourceNode |-> sourceNode, fastWindTapeSource |-> fastWindTapeSource,
      ctxState |-> ctxState, currentTime |-> currentTime,
      pendingResume |-> pendingResume, orphans |-> orphans,
      windSources |-> windSources,
      active |-> active, stopClickTimeout |-> stopClickTimeout,
      timerArmed |-> timerArmed, selectorValue |-> selectorValue,
      isAnimating |-> isAnimating, animRate |-> animRate,
      animDir |-> animDir, intervalId |-> intervalId,
      animation |-> animation, intervals |-> intervals,
      masterGain |-> masterGain, sliderValue |-> sliderValue,
      bufferStore |-> bufferStore, bufferRefs |-> bufferRefs,
      audioBuffers |-> audioBuffers, loads |-> loads,
      buttonsDisabled |-> buttonsDisabled,
      listenersAttached |-> listenersAttached,
      loadingMessage |-> loadingMessage,
      effectsEnabled |-> effectsEnabled, effectStates |-> effectStates,
      connections |-> connections, activeSources |-> activeSources,
      effectButtons |-> effectButtons,
      trace |-> << >>, thrown |-> FALSE ]

Commit(w) ==
    /\ isPlaying' = w.isPlaying
    /\ playbackRate' = w.playbackRate
    /\ direction' = w.direction
    /\ currentPosition' = w.currentPosition
    /\ startTime' = w.startTime
    /\ currentSongKey' = w.currentSongKey
    /\ sourceNode' = w.sourceNode
    /\ fastWindTapeSource' = w.fastWindTapeSource
    /\ ctxState' = w.ctxState
    /\ currentTime' = w.currentTime
    /\ pendingResume' = w.pendingResume
    /\ orphans' = w.orphans
    /\ windSources' = w.windSources
    /\ active' = w.active
    /\ stopClickTimeout' = w.stopClickTimeout
    /\ timerArmed' = w.timerArmed
    /\ selectorValue' = w.selectorValue
    /\ isAnimating' = w.isAnimating
    /\ animRate' = w.animRate
    /\ animDir' = w.animDir
    /\ intervalId' = w.intervalId
    /\ animation' = w.animation
    /\ intervals' = w.intervals
    /\ masterGain' = w.masterGain
    /\ sliderValue' = w.sliderValue
    /\ bufferStore' = w.bufferStore
    /\ bufferRefs' = w.bufferRefs
    /\ audioBuffers' = w.audioBuffers
    /\ loads' = w.loads
    /\ buttonsDisabled' = w.buttonsDisabled
    /\ listenersAttached' = w.listenersAttached
    /\ loadingMessage' = w.loadingMessage
    /\ effectsEnabled' = w.effectsEnabled
    /\ effectStates' = w.effectStates
    /\ connections' = w.connections
    /\ activeSources' = w.activeSources
    /\ effectButtons' = w.effectButtons
    /\ trace' = w.trace

Emit(w, e) == [w EXCEPT !.trace = Append(@, e)]

Has(tr, name) == \E i \in DOMAIN tr : tr[i][1] = name

Count(tr, name) == Cardinality({ i \in DOMAIN tr : tr[i][1] = name })

First(tr, name) == CHOOSE i \in DOMAIN tr :
                      /\ tr[i][1] = name
                      /\ \A j \in DOMAIN tr : tr[j][1] = name => i <= j

\* a looping source node distinct from every live one
FreshId(live) == CHOOSE i \in 1..(Cardinality(live) + 1) :
                    /\ i \notin live
                    /\ \A j \in 1..(Cardinality(live) + 1) : j \notin live => i <= j

\* main source nodes that were started and have neither been stopped nor
\* had their ended callback run: the one this.sourceNode refers to, and the
\* started nodes no field refers to any more (orphans)
LiveMainSources(w) ==
    (IF w.sourceNode.state = "started" THEN 1 ELSE 0) + BagCardinality(w.orphans)

(***************************************************************************)
(* AnimationManager, TimerDisplay                                          *)
(***************************************************************************)
\* null of animationFrameId and lastTimestamp; timestamps are positive
NoFrame == 0

\* constructor(canvasElement); the display has no callback pending
InitAnimation ==
    [ spools |-> [ left |-> 0, right |-> 0 ],
      animationFrameId |-> NoFrame,
      lastTimestamp |-> NoFrame,
      frames |-> {},
      now |-> 0 ]

\* an id no pending callback has and the manager does not hold
FrameId(a) ==
    LET used == { f.id : f \in a.frames } \cup { a.animationFrameId }
    IN  CHOOSE i \in 1..(Cardinality(used) + 1) :
           /\ i \notin used
           /\ \A j \in 1..(Cardinality(used) + 1) : j \notin used => i <= j

\* this.animationFrameId = requestAnimationFrame((ts) =>
\*     this.animate(ts, playbackRate, direction))
requestAnimationFrame(w, rate, dir) ==
    LET id == FrameId(w.animation)
    IN  [w EXCEPT !.animation.frames =
                     @ \cup { [ id |-> id, rate |-> rate,
                                dir |-> dir ] },
                  !.animation.animationFrameId = id]

cancelAnimationFrame(w, id) ==
    [w EXCEPT !.animation.frames = { f \in @ : f.id # id }]

\* angles in units of spoolSpeed / 5 per tick of the display clock
updateSpools(w, rotation) ==
    [w EXCEPT !.animation.spools.left = @ + rotation,
              !.animation.spools.right = @ + rotation]

drawSpools(w) == Emit(w, <<"drawSpools">>)

animate(w, timestamp, rate, dir) ==
    LET last == IF w.animation.lastTimestamp = NoFrame
                THEN timestamp
                ELSE w.animation.lastTimestamp
        deltaTime == timestamp - last
        rotation == deltaTime * rate * dir
        w1 == [Emit(w, <<"animate">>) EXCEPT
                  !.animation.lastTimestamp = timestamp]
        w2 == drawSpools(updateSpools(w1, rotation))
    IN  IF w2.isAnimating
        THEN requestAnimationFrame(w2, rate, dir)
        ELSE w2

\* startAnimation without this.lastTimestamp = null
startAnimation_keepTimestamp(w, rate, dir) ==
    IF w.isAnimating THEN w
    ELSE requestAnimationFrame(
            [w EXCEPT !.isAnimating = TRUE,
                      !.animRate = rate, !.animDir = dir],
            rate, dir)

startAnimation(w, rate, dir) ==
    IF w.isAnimating THEN w
    ELSE requestAnimationFrame(
            [w EXCEPT !.isAnimating = TRUE,
                      !.animation.lastTimestamp = NoFrame,
                      !.animRate = rate, !.animDir = dir],
            rate, dir)

\* stopAnimation without cancelAnimationFrame
stopAnimation_noCancel(w) ==
    IF ~w.isAnimating THEN w
    ELSE [w EXCEPT !.isAnimating = FALSE, !.animRate = 0, !.animDir = 0,
                   !.animation.animationFrameId = NoFrame]

\* cancelAnimationFrame drops the pending callback and the rate and
\* direction bound in its closure
stopAnimation(w) ==
    IF ~w.isAnimating THEN w
    ELSE [cancelAnimationFrame(w, w.animation.animationFrameId) EXCEPT
             !.isAnimating = FALSE, !.animRate = 0, !.animDir = 0,
             !.animation.animationFrameId = NoFrame]

\* TimerDisplay.start without the check of intervalId
TimerDisplay_start_noGuard(w) ==
    [w EXCEPT !.intervalId = TRUE, !.intervals = @ + 1]

TimerDisplay_start(w) ==
    IF ~w.intervalId
    THEN [w EXCEPT !.intervalId = TRUE, !.intervals = @ + 1]
    ELSE w

\* clearInterval(this.intervalId) clears the timer the field refers to
TimerDisplay_stop(w) ==
    IF w.intervalId
    THEN [w EXCEPT !.intervalId = FALSE, !.intervals = @ - 1]
    ELSE w

(***************************************************************************)
(* SoundEffects (parallel dry bus, constructor(audioContext, masterGain)): *)
(* the audio graph.  connections holds the connections among the effect    *)
(* nodes and the master bus; a source node carries its own outputs (out):  *)
(* the number of dry gain nodes it feeds, each connected to masterGain,    *)
(* and whether it feeds the gramophone and the echo chain.                 *)
(***************************************************************************)
Effects == { "crackle", "gramophone", "echo" }

\* a source node connected to nothing
NoOut == [ dry |-> 0, peakingFilter |-> FALSE, delayNode |-> FALSE ]

\* the connections made by initCrackle
CrackleConnections ==
    { <<"crackleSource", "bandpass">>, <<"bandpass", "crackleGain">>,
      <<"crackleGain", "masterGain">> }

\* the connections made by initializeEffects in the constructor
InitConnections ==
    CrackleConnections \cup
    { <<"peakingFilter", "lowShelfFilter">>, <<"lowShelfFilter", "highShelfFilter">>,
      <<"highShelfFilter", "pitchShifter">>, <<"pitchShifter", "distortion">>,
      <<"distortion", "gainNode">>, <<"noiseSource", "noiseGain">>,
      <<"delayNode", "feedbackGain">>, <<"feedbackGain", "delayNode">>,
      <<"delayNode", "wetGain">>, <<"wetGain", "masterGain">> }

\* AudioNode.connect(destination): a connection that exists is not doubled
connect(w, a, b) == [w EXCEPT !.connections = @ \cup { <<a, b>> }]

\* AudioNode.disconnect(): drops every outgoing connection, never raises
disconnect(w, a) == [w EXCEPT !.connections = { c \in @ : c[1] # a }]

\* AudioNode.disconnect(destination): raises InvalidAccessError when there is
\* no connection to destination
disconnectFrom(w, a, b) ==
    IF <<a, b>> \in w.connections
    THEN [w EXCEPT !.connections = @ \ { <<a, b>> }]
    ELSE Emit([w EXCEPT !.thrown = TRUE], <<"throw">>)

\* the bag B with F applied to every element
MapBag(F(_), B) ==
    LET img == { F(n) : n \in DOMAIN B }
    IN  [ m \in img |->
            Cardinality({ p \in (DOMAIN B) \X (1..MaxSources) :
                            F(p[1]) = m /\ p[2] <= B[p[1]] }) ]

\* the crackle generator is an AudioBufferSourceNode: created Fresh, Started by
\* start(), Exhausted by stop().  effectStates.crackleSource is the state of
\* the generator effectStates.crackle.source refers to, and
\* effectStates.crackleLive counts the started generators, referred to or not.
initCrackle(w) ==
    [w EXCEPT !.connections = @ \cup CrackleConnections,
              !.effectStates.crackle = FALSE,
              !.effectStates.crackleSource = "Fresh"]

\* source.start(0): raises InvalidStateError on a generator that was started
\* before; startCrackle catches it
source_start(w) ==
    LET w1 == Emit(w, <<"crackleStart", w.effectStates.crackleSource>>)
    IN  IF w.effectStates.crackleSource = "Fresh"
        THEN [w1 EXCEPT !.effectStates.crackleSource = "Started",
                        !.effectStates.crackleLive = @ + 1]
        ELSE w1

\* source.stop(): raises on a generator that was never started; stopCrackle
\* catches it
source_stop(w) ==
    LET w1 == Emit(w, <<"crackleStop", w.effectStates.crackleSource>>)
    IN  IF w.effectStates.crackleSource = "Started"
        THEN [w1 EXCEPT !.effectStates.crackleSource = "Exhausted",
                        !.effectStates.crackleLive = @ - 1]
        ELSE w1

startCrackle(w) ==
    IF w.effectStates.crackle THEN w
    ELSE [source_start(w) EXCEPT !.effectStates.crackle = TRUE]

\* stopCrackle without this.initCrackle()
stopCrackle_noInit(w) ==
    IF ~w.effectStates.crackle THEN w
    ELSE [disconnect(source_stop(w), "crackleGain") EXCEPT
              !.effectStates.crackle = FALSE]

stopCrackle(w) ==
    IF ~w.effectStates.crackle THEN w
    ELSE initCrackle(disconnect(source_stop(w), "crackleGain"))

startGramophone(w) ==
    LET w1 == connect(connect(w, "gainNode", "masterGain"),
                      "noiseGain", "masterGain")
    IN  [w1 EXCEPT !.effectStates.noiseSource = TRUE]

stopGramophone(w) ==
    LET w1 == disconnectFrom(w, "gainNode", "masterGain")
        w2 == disconnectFrom(w1, "noiseGain", "masterGain")
    IN  IF w1.thrown THEN w1
        ELSE IF w2.thrown THEN w2
        ELSE \* the noise source is stopped and replaced by a fresh one
             connect([w2 EXCEPT !.effectStates.noiseSource = FALSE],
                     "noiseSource", "noiseGain")

startEcho(w) == [w EXCEPT !.effectStates.echo = TRUE]

stopEcho(w) == [w EXCEPT !.effectStates.echo = FALSE]

\* applyEffects without the dry path when the gramophone colours the signal
applyEffects_serial(w, src) ==
    LET out0 == [src EXCEPT !.dry = 0, !.peakingFilter = FALSE,
                            !.delayNode = FALSE]
        gramophone == w.effectsEnabled["gramophone"]
        echo == w.effectsEnabled["echo"]
        out1 == IF gramophone THEN out0 ELSE [out0 EXCEPT !.dry = @ + 1]
        w1 == IF gramophone
              THEN [w EXCEPT !.connections = @ \cup
                      { <<"peakingFilter", "lowShelfFilter">>,
                        <<"lowShelfFilter", "highShelfFilter">>,
                        <<"highShelfFilter", "gainNode">>,
                        <<"gainNode", "masterGain">> }]
              ELSE w
        w2 == IF echo
              THEN startEcho([w1 EXCEPT !.connections = @ \cup
                      { <<"delayNode", "feedbackGain">>,
                        <<"feedbackGain", "delayNode">> }])
              ELSE stopEcho(w1)
    IN  [ w |-> w2,
          out |-> [out1 EXCEPT !.peakingFilter = gramophone,
                               !.delayNode = echo] ]

\* applyEffects without sourceNode.disconnect()
applyEffects_keep(w, src) ==
    LET gramophone == w.effectsEnabled["gramophone"]
        echo == w.effectsEnabled["echo"]
        out1 == [src EXCEPT !.dry = IF @ < 3 THEN @ + 1 ELSE @]
        w1 == IF gramophone
              THEN [w EXCEPT !.connections = @ \cup
                      { <<"peakingFilter", "lowShelfFilter">>,
                        <<"lowShelfFilter", "highShelfFilter">>,
                        <<"highShelfFilter", "gainNode">>,
                        <<"gainNode", "masterGain">> }]
              ELSE w
        w2 == IF echo
              THEN startEcho([w1 EXCEPT !.connections = @ \cup
                      { <<"delayNode", "feedbackGain">>,
                        <<"feedbackGain", "delayNode">> }])
              ELSE stopEcho(w1)
    IN  [ w |-> w2,
          out |-> [out1 EXCEPT !.peakingFilter = @ \/ gramophone,
                               !.delayNode = @ \/ echo] ]

\* applyEffects(sourceNode) on a source with outputs src: the world after the
\* call and the outputs of the source after it
applyEffects(w, src) ==
    LET \* sourceNode.disconnect()
        out0 == [src EXCEPT !.dry = 0, !.peakingFilter = FALSE,
                            !.delayNode = FALSE]
        gramophone == w.effectsEnabled["gramophone"]
        echo == w.effectsEnabled["echo"]
        \* sourceNode.connect(dryGain).connect(this.masterGain), dryGain fresh
        out1 == [out0 EXCEPT !.dry = @ + 1]
        w1 == IF gramophone
              THEN [w EXCEPT !.connections = @ \cup
                      { <<"peakingFilter", "lowShelfFilter">>,
                        <<"lowShelfFilter", "highShelfFilter">>,
                        <<"highShelfFilter", "gainNode">>,
                        <<"gainNode", "masterGain">> }]
              ELSE w
        w2 == IF echo
              THEN startEcho([w1 EXCEPT !.connections = @ \cup
                      { <<"delayNode", "feedbackGain">>,
                        <<"feedbackGain", "delayNode">> }])
              ELSE stopEcho(w1)
    IN  [ w |-> w2,
          out |-> [out1 EXCEPT !.peakingFilter = gramophone,
                               !.delayNode = echo] ]

\* activeSources.forEach(applyEffects): the started main source, the started
\* nodes no field refers to, and the sounds registered by playSound.  What
\* applyEffects does to the effect nodes does not depend on the source.
reapplyEffects(w) ==
    LET main == w.sourceNode.state = "started"
        any == main \/ BagCardinality(w.orphans) > 0 \/ w.activeSources # {}
        w1 == IF any THEN applyEffects(w, NoOut).w ELSE w
        Re(o) == [o EXCEPT !.out = applyEffects(w, @).out]
    IN  [w1 EXCEPT !.sourceNode = IF main THEN Re(@) ELSE @,
                   !.orphans = MapBag(Re, @)]

toggleEffect(w, effectName) ==
    LET w1 == [w EXCEPT !.effectsEnabled[effectName] = ~@]
        on == w1.effectsEnabled[effectName]
        w2 == IF effectName = "crackle"
              THEN (IF on THEN startCrackle(w1) ELSE stopCrackle(w1))
              ELSE IF effectName = "gramophone"
              THEN (IF on THEN startGramophone(w1) ELSE stopGramophone(w1))
              ELSE (IF on THEN startEcho(w1) ELSE stopEcho(w1))
    IN  IF w2.thrown THEN w2 ELSE reapplyEffects(w2)

disconnectEffects(w) ==
    [w EXCEPT !.connections =
        { c \in @ : c[1] \notin { "peakingFilter", "lowShelfFilter",
                                  "highShelfFilter", "gainNode", "wetGain",
                                  "crackleGain" } }]

\* EffectControls.handleVinylCrackleToggle / handleGramophoneToggle /
\* handleEchoToggle
handleEffectToggle(w, effectName) ==
    LET w1 == toggleEffect(w, effectName)
    IN  IF w1.thrown THEN w1
        ELSE [w1 EXCEPT !.effectButtons[effectName] = ~@]

\* playSound(buffer, options) with useEffects left at its default: the sound
\* is routed through applyEffects and registered in activeSources until its
\* ended event.  A one-shot sound (loop false) is over before the next event
\* is handled, so only what its routing did to the effect nodes remains.
playSound(w, loop) ==
    LET w1 == applyEffects(w, NoOut).w
    IN  IF loop THEN [w1 EXCEPT !.activeSources = @ \cup {"fastWindTape"}]
        ELSE w1

(***************************************************************************)
(* AudioPlayer: winding sound                                              *)
(***************************************************************************)
\* startFastWindTape without the "already playing" early return
startFastWindTape_noGuard(w) ==
    IF "fastWindTape" \notin w.audioBuffers THEN w ELSE
    LET id == FreshId(w.windSources)
    IN  Emit([playSound(w, TRUE) EXCEPT
                       !.fastWindTapeSource = id,
                       !.windSources = @ \cup {id}],
             <<"windStart">>)

startFastWindTape(w) ==
    IF "fastWindTape" \notin w.audioBuffers \/ w.fastWindTapeSource # NoSource
    THEN w
    ELSE LET id == FreshId(w.windSources)
         IN  Emit([playSound(w, TRUE) EXCEPT
                            !.fastWindTapeSource = id,
                            !.windSources = @ \cup {id}],
                  <<"windStart">>)

\* stopFastWindTape that drops the reference without stop() and disconnect()
stopFastWindTape_noStop(w) ==
    IF w.fastWindTapeSource # NoSource
    THEN Emit([w EXCEPT !.fastWindTapeSource = NoSource], <<"windStop">>)
    ELSE w

\* stop() makes the looping source report its end, and the onended handler
\* set by addActiveSource takes it out of activeSources; looping sources that
\* no field refers to stay registered
stopFastWindTape(w) ==
    IF w.fastWindTapeSource # NoSource
    THEN LET live == w.windSources \ {w.fastWindTapeSource}
         IN  Emit([w EXCEPT !.windSources = live,
                            !.fastWindTapeSource = NoSource,
                            !.activeSources =
                                IF live = {} THEN @ \ {"fastWindTape"} ELSE @],
                  <<"windStop">>)
    ELSE w

(***************************************************************************)
(* TransportControls / UIManager: deactivation, event listeners            *)
(***************************************************************************)
TransportControls_deactivatePlaybackMode(w) ==
    LET w1 == Emit([w EXCEPT !.active = {}], <<"deactivate">>)
    IN  TimerDisplay_stop(stopAnimation(stopFastWindTape(w1)))

UIManager_deactivatePlaybackMode(w) ==
    LET w1 == TransportControls_deactivatePlaybackMode(w)
    IN  TimerDisplay_stop(stopAnimation(stopFastWindTape(w1)))

\* the engine as a listener of the named event finds it when it is called
Observed(w, name) ==
    <<"listener", name, w.isPlaying, w.sourceNode.state, w.currentPosition>>

handlePlaybackStopped(w) ==
    UIManager_deactivatePlaybackMode(Emit(w, Observed(w, "playbackStopped")))

handlePlaybackEnded(w) ==
    UIManager_deactivatePlaybackMode(Emit(w, Observed(w, "playbackEnded")))

(***************************************************************************)
(* AudioPlayer: main playback                                              *)
(***************************************************************************)
\* stopAudio with the direction left out of deltaPosition
stopAudio_noDirection(w) ==
    IF ~w.isPlaying THEN w
    ELSE
      LET w0 == IF w.sourceNode.state # "null"
                THEN Emit([w EXCEPT !.sourceNode = NullNode], <<"sourceStop">>)
                ELSE w
          w1 == disconnectEffects(w0)
          elapsed == w1.currentTime - w1.startTime
          deltaPosition == elapsed * w1.playbackRate
          pos == w1.currentPosition + deltaPosition
          w2 == [w1 EXCEPT
                   !.currentPosition =
                       MaxOf(0, MinOf(pos, Duration(w1.currentSongKey))),
                   !.isPlaying = FALSE]
      IN  handlePlaybackStopped(Emit(w2, <<"playbackStopped">>))

stopAudio(w) ==
    IF ~w.isPlaying THEN w
    ELSE
      LET w0 == IF w.sourceNode.state # "null"
                THEN Emit([w EXCEPT !.sourceNode = NullNode], <<"sourceStop">>)
                ELSE w
          w1 == disconnectEffects(w0)
          elapsed == w1.currentTime - w1.startTime
          deltaPosition == elapsed * w1.playbackRate * w1.direction
          pos == w1.currentPosition + deltaPosition
          w2 == [w1 EXCEPT
                   !.currentPosition =
                       MaxOf(0, MinOf(pos, Duration(w1.currentSongKey))),
                   !.isPlaying = FALSE]
      IN  handlePlaybackStopped(Emit(w2, <<"playbackStopped">>))

\* _startMainAudio without this.startTime = audioContext.currentTime
_startMainAudio_keepStartTime(w) ==
    LET dur == Duration(w.currentSongKey)
        \* this.sourceNode = createBufferSource(): a started node the field
        \* still referred to is referred to by nothing from here on
        w1 == [w EXCEPT
                 !.orphans = IF w.sourceNode.state = "started"
                             THEN @ (+) SetToBag({
                                      [ left |-> TicksLeft(w.sourceNode,
                                                           w.currentTime),
                                        out |-> w.sourceNode.out ]})
                             ELSE @,
                 !.sourceNode = [ state |-> "unstarted", rem |-> 0,
                                  rate |-> w.playbackRate, out |-> NoOut ]]
        \* this.processor.applyEffects(this.sourceNode)
        routed == applyEffects(w1, w1.sourceNode.out)
        w2 == [routed.w EXCEPT !.sourceNode.out = routed.out]
        offset == IF w.direction = 1
                  THEN w.currentPosition
                  ELSE dur - w.currentPosition
    IN  IF offset < 0
        THEN \* start(0, offset) raises RangeError on a negative offset
             Emit([w2 EXCEPT !.thrown = TRUE], <<"throw">>)
        ELSE Emit([w2 EXCEPT
                     !.sourceNode = [ state |-> "started",
                                      rem |-> dur - MinOf(offset, dur),
                                      rate |-> w.playbackRate,
                                      out |-> routed.out ],
                     !.isPlaying = TRUE],
                  <<"sourceStart">>)

_startMainAudio(w) ==
    LET dur == Duration(w.currentSongKey)
        \* this.sourceNode = createBufferSource(): a started node the field
        \* still referred to is referred to by nothing from here on
        w1 == [w EXCEPT
                 !.orphans = IF w.sourceNode.state = "started"
                             THEN @ (+) SetToBag({
                                      [ left |-> TicksLeft(w.sourceNode,
                                                           w.currentTime),
                                        out |-> w.sourceNode.out ]})
                             ELSE @,
                 !.sourceNode = [ state |-> "unstarted", rem |-> 0,
                                  rate |-> w.playbackRate, out |-> NoOut ]]
        \* this.processor.applyEffects(this.sourceNode)
        routed == applyEffects(w1, w1.sourceNode.out)
        w2 == [routed.w EXCEPT !.sourceNode.out = routed.out]
        offset == IF w.direction = 1
                  THEN w.currentPosition
                  ELSE dur - w.currentPosition
    IN  IF offset < 0
        THEN \* start(0, offset) raises RangeError on a negative offset
             Emit([w2 EXCEPT !.thrown = TRUE], <<"throw">>)
        ELSE Emit([w2 EXCEPT
                     !.sourceNode = [ state |-> "started",
                                      rem |-> dur - MinOf(offset, dur),
                                      rate |-> w.playbackRate,
                                      out |-> routed.out ],
                     !.startTime = w.currentTime,
                     !.isPlaying = TRUE],
                  <<"sourceStart">>)

\* playAudio without the "already playing" half of its early return
playAudio_noGuard(w) ==
    IF w.currentSongKey \notin w.audioBuffers THEN w
    ELSE IF w.ctxState = "suspended"
         THEN Emit([w EXCEPT !.pendingResume = @ + 1], <<"resume">>)
         ELSE _startMainAudio(w)

playAudio(w) ==
    IF w.isPlaying \/ w.currentSongKey \notin w.audioBuffers THEN w
    ELSE IF w.ctxState = "suspended"
         THEN Emit([w EXCEPT !.pendingResume = @ + 1], <<"resume">>)
         ELSE _startMainAudio(w)

resetAudio(w) ==
    [stopAudio(w) EXCEPT !.currentPosition = 0]

\* switchPlayback without the "parameters unchanged" early return
AudioPlayer_switchPlayback_always(w, newDirection, newRate) ==
    LET w0 == playSound(w, FALSE)
        w1 == IF w0.isPlaying THEN stopAudio(w0) ELSE w0
        w2 == [w1 EXCEPT !.direction = newDirection,
                         !.playbackRate = newRate]
        w3 == playAudio(w2)
    IN  IF w3.thrown THEN w3
        ELSE IF w3.playbackRate > NormalRate
             THEN startFastWindTape(w3)
             ELSE stopFastWindTape(w3)

\* switchPlayback without the stopAudio() of the playback under way
AudioPlayer_switchPlayback_noStop(w, newDirection, newRate) ==
    IF w.isPlaying /\ w.direction = newDirection /\ w.playbackRate = newRate
    THEN w
    ELSE
      LET w0 == playSound(w, FALSE)
          w2 == [w0 EXCEPT !.direction = newDirection,
                           !.playbackRate = newRate]
          w3 == playAudio(w2)
      IN  IF w3.thrown THEN w3
          ELSE IF w3.playbackRate > NormalRate
               THEN startFastWindTape(w3)
               ELSE stopFastWindTape(w3)

AudioPlayer_switchPlayback(w, newDirection, newRate) ==
    IF w.isPlaying /\ w.direction = newDirection /\ w.playbackRate = newRate
    THEN w
    ELSE
      LET w0 == playSound(w, FALSE)
          w1 == IF w0.isPlaying THEN stopAudio(w0) ELSE w0
          w2 == [w1 EXCEPT !.direction = newDirection,
                           !.playbackRate = newRate]
          w3 == playAudio(w2)
      IN  IF w3.thrown THEN w3
          ELSE IF w3.playbackRate > NormalRate
               THEN startFastWindTape(w3)
               ELSE stopFastWindTape(w3)

getCurrentPosition(w) ==
    IF ~w.isPlaying THEN w.currentPosition
    ELSE LET elapsed == w.currentTime - w.startTime
             deltaPosition == elapsed * w.playbackRate * w.direction
             pos == w.currentPosition + deltaPosition
         IN  MaxOf(0, MinOf(pos, Duration(w.currentSongKey)))

setPlaybackRate(w, rate) ==
    LET w1 == [w EXCEPT !.playbackRate = rate]
    IN  IF w1.isPlaying /\ w1.sourceNode.state # "null"
        THEN [w1 EXCEPT !.sourceNode.rate = rate]
        ELSE w1

\* setCurrentSong without the "not loaded" early return
setCurrentSong_noCheck(w, songKey) ==
    LET w1 == [w EXCEPT !.currentSongKey = songKey]
    IN  IF w1.isPlaying
        THEN playAudio([stopAudio(w1) EXCEPT !.currentPosition = 0])
        ELSE w1

setCurrentSong(w, songKey) ==
    IF songKey \notin w.audioBuffers THEN w
    ELSE
      LET w1 == [w EXCEPT !.currentSongKey = songKey]
      IN  IF w1.isPlaying
          THEN playAudio([stopAudio(w1) EXCEPT !.currentPosition = 0])
          ELSE w1

(***************************************************************************)
(* TransportControls: handlers                                             *)
(***************************************************************************)
setActiveButton(w, activeBtn) ==
    Emit([w EXCEPT !.active = { b \in Buttons : b = activeBtn }],
         <<"setActive", activeBtn>>)

TransportControls_switchPlayback(w, newDirection, newRate, activeButton) ==
    LET w1 == AudioPlayer_switchPlayback(w, newDirection, newRate)
        w2 == setActiveButton(w1, activeButton)
    IN  IF w1.thrown THEN w1
        ELSE IF w2.isPlaying
             THEN TimerDisplay_start(
                      startAnimation(w2, w2.playbackRate, w2.direction))
             ELSE TimerDisplay_stop(stopAnimation(w2))

handlePlayClick(w) ==
    TransportControls_switchPlayback(w, 1, w.selectorValue, "play")

handleRewindClick(w) ==
    TransportControls_switchPlayback(w, -1, FastRate, "rewind")

handleFastForwardClick(w) ==
    TransportControls_switchPlayback(w, 1, FastRate, "fastForward")

handleStopSingleClick(w) ==
    LET w0 == Emit(w, <<"stopSingle">>)
    IN  IF w0.isPlaying
        THEN stopFastWindTape(
                 TransportControls_deactivatePlaybackMode(stopAudio(w0)))
        ELSE w0

handleStopDoubleClick(w) ==
    LET w0 == Emit(w, <<"stopDouble">>)
    IN  stopFastWindTape(
            TransportControls_deactivatePlaybackMode(resetAudio(w0)))

\* handleStopButtonClick that forgets clearTimeout on the second click
handleStopButtonClick_noClear(w) ==
    IF w.stopClickTimeout
    THEN handleStopDoubleClick([w EXCEPT !.stopClickTimeout = FALSE])
    ELSE [w EXCEPT !.stopClickTimeout = TRUE, !.timerArmed = TRUE]

handleStopButtonClick(w) ==
    IF w.stopClickTimeout
    THEN handleStopDoubleClick(
             [w EXCEPT !.timerArmed = FALSE, !.stopClickTimeout = FALSE])
    ELSE [w EXCEPT !.stopClickTimeout = TRUE, !.timerArmed = TRUE]

\* the callback given to setTimeout
stopClickTimeoutCallback(w) ==
    [handleStopSingleClick(w) EXCEPT !.stopClickTimeout = FALSE]

handlePlaybackSpeedChange(w, value) ==
    LET w1 == setPlaybackRate([w EXCEPT !.selectorValue = value], value)
    IN  IF w1.isPlaying
        THEN \* AnimationManager has no updateAnimationSpeed: TypeError
             Emit([w1 EXCEPT !.thrown = TRUE], <<"throw">>)
        ELSE w1

\* an onended callback that only announces the end and does not stop
onended_noStop(w) ==
    handlePlaybackEnded(Emit(Emit(w, <<"ended">>), <<"playbackEnded">>))

\* the onended callback that _startMainAudio sets on each source
onended(w) ==
    handlePlaybackEnded(Emit(stopAudio(Emit(w, <<"ended">>)), <<"playbackEnded">>))

\* the continuations of n settled resumeContext() promises, in order; an
\* exception of one continuation is caught by its own .catch
RECURSIVE RunResumed(_, _)
RunResumed(w, n) ==
    IF n = 0 THEN w
    ELSE RunResumed([_startMainAudio(w) EXCEPT !.thrown = FALSE], n - 1)

(***************************************************************************)
(* Initial state: assets loaded, listeners attached, nothing playing.  The *)
(* context is suspended until a user gesture, or already running.          *)
(***************************************************************************)
\* both initialize() calls resolved and UIManager.init ran to its end
\* SoundEffects and EffectControls after construction
InitEffects ==
    /\ effectsEnabled = [ e \in Effects |-> FALSE ]
    /\ effectStates = [ crackle |-> FALSE, crackleSource |-> "Fresh",
                        crackleLive |-> 0, noiseSource |-> FALSE,
                        echo |-> FALSE ]
    /\ connections = InitConnections
    /\ activeSources = {}
    /\ effectButtons = [ e \in Effects |-> FALSE ]

Loaded ==
    /\ audioBuffers = AllBuffers
    /\ loads = [ c \in { "constructor", "init" } |-> "loaded" ]
    /\ buttonsDisabled = FALSE
    /\ listenersAttached = TRUE
    /\ loadingMessage = "removed"

InitEngine ==
    /\ isPlaying = FALSE
    /\ playbackRate = NormalRate
    /\ direction = 1
    /\ currentPosition = 0
    /\ startTime = 0
    /\ currentSongKey = "song_1"
    /\ sourceNode = NullNode
    /\ fastWindTapeSource = NoSource
    /\ ctxState \in { "suspended", "running" }
    /\ currentTime = 0
    /\ pendingResume = 0
    /\ orphans = EmptyBag
    /\ windSources = {}
    /\ active = {}
    /\ stopClickTimeout = FALSE
    /\ timerArmed = FALSE
    /\ selectorValue = NormalRate
    /\ isAnimating = FALSE
    /\ animation = InitAnimation
    /\ animRate = 0
    /\ animDir = 0
    /\ intervalId = FALSE
    /\ intervals = 0
    /\ masterGain = Unity
    /\ sliderValue = << "1" >>
    /\ trace = << >>
    /\ InitEffects

InitPlayer == InitEngine /\ Loaded

Init ==
    /\ InitPlayer
    /\ legP = 0 /\ legR = NormalRate /\ legD = 1 /\ legT = 0
    /\ legPhase = "none"
    /\ stopResolved = FALSE
    /\ bufferStore = << >> /\ bufferRefs = << >>

\* a click reaches a transport handler once TransportControls.init attached
\* the listeners and the buttons are no longer disabled
Clickable == listenersAttached /\ ~buttonsDisabled

\* room for one more main source node
Room == LiveMainSources(World) + pendingResume < MaxSources

(***************************************************************************)
(* Actions: one per event handler                                          *)
(***************************************************************************)
PlayClick ==
    /\ Clickable
    /\ Room
    /\ Commit(handlePlayClick(Emit(World, <<"press", "play">>)))
    /\ stopResolved' = FALSE
    /\ UNCHANGED legVars

RewindClick ==
    /\ Clickable
    /\ Room
    /\ Commit(handleRewindClick(Emit(World, <<"press", "rewind">>)))
    /\ stopResolved' = FALSE
    /\ UNCHANGED legVars

FastForwardClick ==
    /\ Clickable
    /\ Room
    /\ Commit(handleFastForwardClick(Emit(World, <<"press", "fastForward">>)))
    /\ stopResolved' = FALSE
    /\ UNCHANGED legVars

StopClick ==
    /\ Clickable
    /\ Commit(handleStopButtonClick(Emit(World, <<"stopClick">>)))
    /\ stopResolved' = (stopResolved \/ stopClickTimeout)
    /\ UNCHANGED legVars

StopTimerFire ==
    /\ timerArmed
    /\ Commit(stopClickTimeoutCallback(
                  Emit([World EXCEPT !.timerArmed = FALSE], <<"timeout">>)))
    /\ stopResolved' = TRUE
    /\ UNCHANGED legVars

SpeedChange ==
    /\ listenersAttached
    /\ \E v \in SpeedOptions \ {selectorValue} :
           Commit(handlePlaybackSpeedChange(Emit(World, <<"speed">>), v))
    /\ UNCHANGED << legVars, stopResolved >>

SongChange ==
    /\ listenersAttached
    /\ Room
    /\ \E k \in Songs \ {currentSongKey} :
           Commit(setCurrentSong(Emit(World, <<"song">>), k))
    /\ UNCHANGED << legVars, stopResolved >>

\* the pending resume() promises settle together; on failure the context
\* stays suspended, resumeContext swallows the error and the continuations
\* of playAudio run all the same
resumeSettled(w, ok) ==
    RunResumed(Emit([w EXCEPT !.ctxState = IF ok THEN "running" ELSE @,
                              !.pendingResume = 0],
                    <<"resumed">>),
               w.pendingResume)

ResumeSettle ==
    /\ pendingResume > 0
    /\ \E ok \in BOOLEAN : Commit(resumeSettled(World, ok))
    /\ UNCHANGED << legVars, stopResolved >>

\* a live source reached the end of its buffer
EndOfMedia ==
    /\ ctxState = "running"
    /\ \/ /\ sourceNode.state = "started"
          /\ sourceNode.rem = 0
          /\ Commit(onended([World EXCEPT !.sourceNode.state = "ended"]))
       \/ \E n \in DOMAIN orphans :
             /\ n.left = 0
             /\ Commit(onended([World EXCEPT
                                  !.orphans = @ (-) SetToBag({n}),
                                  !.activeSources = @ \cup {"ended"}]))
    /\ UNCHANGED << legVars, stopResolved >>

\* the audio clock advances; every live source consumes its buffer
clockTick(w) ==
    Emit([w EXCEPT !.currentTime = @ + 1,
                   !.sourceNode = IF @.state = "started" THEN Advance(@) ELSE @,
                   !.orphans = AdvanceAll(@)],
         <<"tick">>)

Tick ==
    /\ ctxState = "running"
    /\ currentTime < MaxTime
    /\ Commit(clockTick(World))
    /\ UNCHANGED << legVars, stopResolved >>

Next ==
    \/ PlayClick
    \/ RewindClick
    \/ FastForwardClick
    \/ StopClick
    \/ StopTimerFire
    \/ SpeedChange
    \/ SongChange
    \/ ResumeSettle
    \/ EndOfMedia
    \/ Tick

Spec == Init /\ [][Next]_vars

(***************************************************************************)
(* One play / wait / stop leg of the engine from an arbitrary cursor,      *)
(* direction and rate: playAudio(), t ticks of the audio clock, stopAudio()*)
(***************************************************************************)
InitLeg ==
    /\ currentSongKey \in Songs
    /\ legP \in 0..Duration(currentSongKey)
    /\ legD \in {1, -1}
    /\ legR \in SpeedOptions \cup {FastRate}
    /\ legT = 0
    /\ legPhase = "ready"
    /\ stopResolved = FALSE
    /\ bufferStore = << >> /\ bufferRefs = << >>
    /\ currentPosition = legP
    /\ direction = legD
    /\ playbackRate = legR
    /\ isPlaying = FALSE
    /\ startTime = 0
    /\ sourceNode = NullNode
    /\ fastWindTapeSource = NoSource
    /\ ctxState \in { "suspended", "running" }
    /\ currentTime = 0
    /\ pendingResume = 0
    /\ orphans = EmptyBag
    /\ windSources = {}
    /\ active = {}
    /\ stopClickTimeout = FALSE
    /\ timerArmed = FALSE
    /\ selectorValue = NormalRate
    /\ isAnimating = FALSE
    /\ animation = InitAnimation
    /\ animRate = 0
    /\ animDir = 0
    /\ intervalId = FALSE
    /\ intervals = 0
    /\ masterGain = Unity
    /\ sliderValue = << "1" >>
    /\ trace = << >>
    /\ Loaded
    /\ InitEffects

LegPlay ==
    /\ legPhase = "ready"
    /\ Commit(playAudio(World))
    /\ legPhase' = "playing"
    /\ UNCHANGED << legP, legR, legD, legT >>
    /\ UNCHANGED stopResolved

LegResume ==
    /\ legPhase = "playing"
    /\ pendingResume > 0
    /\ \E ok \in BOOLEAN : Commit(resumeSettled(World, ok))
    /\ UNCHANGED legVars
    /\ UNCHANGED stopResolved

LegTick ==
    /\ legPhase = "playing"
    /\ ctxState = "running"
    /\ currentTime < MaxTime
    /\ Commit(clockTick(World))
    /\ legT' = legT + 1
    /\ UNCHANGED << legP, legR, legD, legPhase >>
    /\ UNCHANGED stopResolved

LegEnded ==
    /\ legPhase = "playing"
    /\ ctxState = "running"
    /\ sourceNode.state = "started"
    /\ sourceNode.rem = 0
    /\ Commit(onended([World EXCEPT !.sourceNode.state = "ended"]))
    /\ UNCHANGED legVars
    /\ UNCHANGED stopResolved

LegStop ==
    /\ legPhase = "playing"
    /\ Commit(stopAudio(World))
    /\ legPhase' = "stopped"
    /\ UNCHANGED << legP, legR, legD, legT >>
    /\ UNCHANGED stopResolved

NextLeg == LegPlay \/ LegResume \/ LegTick \/ LegEnded \/ LegStop

SpecLeg == InitLeg /\ [][NextLeg]_vars

TypeOK ==
    /\ isPlaying \in BOOLEAN
    /\ playbackRate \in SpeedOptions \cup {FastRate}
    /\ direction \in {1, -1}
    /\ currentPosition \in Int
    /\ startTime \in 0..currentTime
    /\ LiveMainSources(World) <= MaxSources
    /\ audioBuffers \subseteq AllBuffers
    /\ loads \in [ { "constructor", "init" } -> { "pending", "loaded", "failed" } ]
    /\ buttonsDisabled \in BOOLEAN
    /\ listenersAttached \in BOOLEAN
    /\ loadingMessage \in { "Loading...", "Failed to load audio.", "removed" }
    /\ \A o \in DOMAIN orphans : o.left \in {Later} \cup 0..MaxTime
    /\ effectsEnabled \in [ Effects -> BOOLEAN ]
    /\ effectButtons \in [ Effects -> BOOLEAN ]
    /\ connections \subseteq
           InitConnections \cup { <<"highShelfFilter", "gainNode">>,
                                  <<"gainNode", "masterGain">>,
                                  <<"noiseGain", "masterGain">> }
    /\ activeSources \subseteq { "fastWindTape", "ended" }
    /\ animation.frames \subseteq
           [ id : 1..2, rate : SpeedOptions \cup {FastRate}, dir : {1, -1} ]
    /\ animation.animationFrameId \in {NoFrame} \cup 1..2

(***************************************************************************)
(* Claims                                                                  *)
(***************************************************************************)

\* C1: the number of main source nodes that have been started and not yet
\* stopped is exactly 1 when isPlaying is true and 0 when it is false.
C1_OneLiveSourceIffPlaying ==
    LiveMainSources(World) = IF isPlaying THEN 1 ELSE 0

\* C2: currentPosition and getCurrentPosition() lie in
\* [0, duration of the currently selected song].
C2_PositionInRange ==
    /\ currentPosition >= 0
    /\ currentPosition <= Duration(currentSongKey)
    /\ getCurrentPosition(World) >= 0
    /\ getCurrentPosition(World) <= Duration(currentSongKey)

\* C3: playAudio from position p with direction d and rate r, then t seconds
\* of audio-clock time with no rate change, then stopAudio leaves
\* currentPosition = min(duration, max(0, p + t*r*d)) and isPlaying = false.
C3_LegPosition ==
    legPhase = "stopped" =>
        /\ currentPosition =
               MinOf(Duration(currentSongKey),
                     MaxOf(0, legP + legT * legR * legD))
        /\ ~isPlaying

\* a reverse leg of two ticks stopped strictly inside the song
C3_Witness ==
    /\ legPhase = "stopped"
    /\ legT = 2
    /\ legD = -1
    /\ legP - legT * legR > 0
    /\ currentPosition = legP - 2 * legR

\* the handler that ran in the step leading to a state with trace tr
Ran(tr, name) == Len(tr) > 0 /\ tr[1][1] = name

Pressed(tr, b) == Ran(tr, "press") /\ tr[1][2] = b

\* the (direction, rate) a transport button asks for
DirOf(b) == IF b = "rewind" THEN -1 ELSE 1
RateOf(b, selected) == IF b = "play" THEN selected ELSE FastRate

\* transport mode Idle as the user sees and hears it
Idle ==
    /\ ~isPlaying
    /\ active = {}
    /\ fastWindTapeSource = NoSource
    /\ windSources = {}
    /\ ~isAnimating
    /\ ~intervalId

\* C4: switchPlayback(direction, rate) while playing with exactly that
\* direction and rate creates and stops no source node, leaves
\* currentPosition and startTime unchanged and emits no playbackStopped.
C4_SwitchSameIsNoOp ==
    [][ \A b \in Buttons :
          ( /\ Pressed(trace', b)
            /\ isPlaying
            /\ direction = DirOf(b)
            /\ playbackRate = RateOf(b, selectorValue) )
          => /\ sourceNode' = sourceNode
             /\ orphans' = orphans
             /\ currentPosition' = currentPosition
             /\ startTime' = startTime
             /\ isPlaying'
             /\ ~Has(trace', "sourceStart")
             /\ ~Has(trace', "sourceStop")
             /\ ~Has(trace', "playbackStopped") ]_vars

\* Play pressed again in the middle of forward playback at the selected rate
C4_Witness ==
    /\ Pressed(trace, "play")
    /\ Len(trace) = 2
    /\ isPlaying
    /\ sourceNode.state = "started"
    /\ currentTime > startTime
    /\ getCurrentPosition(World) > currentPosition

\* C5: a Stop click with no pending click arms the 250 ms timer and runs
\* nothing; when the timer expires the single-click action runs exactly once
\* (playback stopped, cursor preserved); a second Stop click inside the window
\* cancels the timer and runs the double-click action (cursor 0), and no
\* other handler runs either action.
C5_StopDisambiguation ==
    [][ /\ Ran(trace', "timeout") =>
              /\ timerArmed
              /\ Count(trace', "stopSingle") = 1
              /\ ~Has(trace', "stopDouble")
              /\ ~isPlaying'
              /\ currentPosition' = getCurrentPosition(World)
              /\ ~timerArmed' /\ ~stopClickTimeout'
        /\ (Ran(trace', "stopClick") /\ stopClickTimeout) =>
              /\ Count(trace', "stopDouble") = 1
              /\ ~Has(trace', "stopSingle")
              /\ ~isPlaying'
              /\ currentPosition' = 0
              /\ ~timerArmed' /\ ~stopClickTimeout'
        /\ (Ran(trace', "stopClick") /\ ~stopClickTimeout) =>
              /\ ~Has(trace', "stopSingle")
              /\ ~Has(trace', "stopDouble")
              /\ timerArmed' /\ stopClickTimeout'
              /\ isPlaying' = isPlaying
              /\ currentPosition' = currentPosition
        /\ (~Ran(trace', "timeout") /\ ~Ran(trace', "stopClick")) =>
              /\ ~Has(trace', "stopSingle")
              /\ ~Has(trace', "stopDouble")
              /\ timerArmed' = timerArmed ]_vars

\* a double click that stopped a playback which had advanced, cursor back at 0
C5_Witness ==
    /\ Ran(trace, "stopClick")
    /\ Has(trace, "stopDouble")
    /\ Has(trace, "playbackStopped")
    /\ currentTime > startTime
    /\ currentPosition = 0
    /\ ~timerArmed

\* C6: at most one of Play, Rewind and FastForward is marked active after
\* every handled event; when FastForward is pressed while Rewinding (or Rewind
\* while FastForwarding) the previous button ends up inactive, and a new
\* winding-sound source starts only after the previous button was deactivated
\* and the previous winding-sound source was stopped.
C6_MutualExclusion ==
    /\ [](Cardinality(active) <= 1 /\ Cardinality(windSources) <= 1)
    /\ [][ \A b \in {"rewind", "fastForward"} :
             ( /\ Pressed(trace', b)
               /\ active \cap {"rewind", "fastForward"} = {"rewind", "fastForward"} \ {b} )
             => /\ active' = {b}
                /\ Has(trace', "windStart") =>
                      /\ Has(trace', "deactivate")
                      /\ First(trace', "deactivate") < First(trace', "windStart")
                      /\ fastWindTapeSource # NoSource =>
                            /\ Has(trace', "windStop")
                            /\ First(trace', "windStop") < First(trace', "windStart")
                      /\ Cardinality(windSources') = 1 ]_vars

\* FastForward pressed while Rewinding: the old winding source was stopped and
\* a new one started
C6_Witness ==
    /\ Pressed(trace, "fastForward")
    /\ Has(trace, "windStop")
    /\ Has(trace, "windStart")
    /\ active = {"fastForward"}
    /\ direction = 1
    /\ isPlaying

\* C7: the engine isPlaying if and only if the spool animation loop is
\* running, the position ticker interval is running and exactly one transport
\* button is marked active.
C7_InUnison ==
    isPlaying <=> (isAnimating /\ intervalId /\ Cardinality(active) = 1)

\* C8: when the end-of-media callback has run, the system is Idle: engine not
\* playing, no transport button active, winding sound stopped, animation loop
\* and ticker stopped.
C8_EndOfMediaIdle ==
    [][ Ran(trace', "ended") => Idle' ]_vars

\* end of media reached while FastForwarding with the winding sound live
C8_Witness ==
    /\ Ran(trace, "ended")
    /\ Has(trace, "playbackStopped")
    /\ Has(trace, "windStop")
    /\ Has(trace, "playbackEnded")
    /\ currentPosition = Duration(currentSongKey)
    /\ Idle

\* C9: once a Stop gesture has been resolved the system is Idle and stays
\* Idle until the next transport press.
C9_StopLeavesIdle ==
    stopResolved => Idle

\* C10: with the audio context running, pressing Play, FastForward or Rewind
\* leaves the engine playing with the button's (direction, rate), exactly that
\* button active and the cursor carried over.
C10_PressStartsMode ==
    [][ \A b \in Buttons :
          (Pressed(trace', b) /\ ctxState = "running")
          => /\ isPlaying'
             /\ direction' = DirOf(b)
             /\ playbackRate' = RateOf(b, selectorValue)
             /\ active' = {b}
             /\ getCurrentPosition(World') = getCurrentPosition(World) ]_vars

\* C11: changing the playback-speed selector while Playing sets the engine's
\* rate to the selected value and keeps the transport mode; changing it while
\* Rewinding or FastForwarding leaves the engine's playback rate and the live
\* source's rate at the fast transport rate.
C11_SpeedSelector ==
    [][ Ran(trace', "speed") =>
          /\ (isPlaying /\ active = {"play"}) =>
                /\ playbackRate' = selectorValue'
                /\ sourceNode'.rate = selectorValue'
                /\ isPlaying' /\ active' = active
                /\ direction' = direction
          /\ (isPlaying /\ active \cap {"rewind", "fastForward"} # {}) =>
                /\ playbackRate' = FastRate
                /\ sourceNode'.rate = FastRate
                /\ isPlaying' /\ active' = active ]_vars

(***************************************************************************)
(* A play leg with a live rate change: playAudio() at rate legR, legT      *)
(* ticks of the audio clock, setPlaybackRate(r2), further ticks,           *)
(* stopAudio()                                                             *)
(***************************************************************************)
RatePlay ==
    /\ legPhase = "ready"
    /\ Commit(playAudio(World))
    /\ legPhase' = "rate1"
    /\ UNCHANGED << legP, legR, legD, legT, stopResolved >>

RateResume ==
    /\ legPhase = "rate1"
    /\ pendingResume > 0
    /\ \E ok \in BOOLEAN : Commit(resumeSettled(World, ok))
    /\ UNCHANGED << legVars, stopResolved >>

RateTick1 ==
    /\ legPhase = "rate1"
    /\ ctxState = "running"
    /\ currentTime < MaxTime
    /\ Commit(clockTick(World))
    /\ legT' = legT + 1
    /\ UNCHANGED << legP, legR, legD, legPhase, stopResolved >>

RateSet ==
    /\ legPhase = "rate1"
    /\ isPlaying
    /\ \E r2 \in SpeedOptions : Commit(setPlaybackRate(World, r2))
    /\ legPhase' = "rate2"
    /\ UNCHANGED << legP, legR, legD, legT, stopResolved >>

RateTick2 ==
    /\ legPhase = "rate2"
    /\ ctxState = "running"
    /\ currentTime < MaxTime
    /\ Commit(clockTick(World))
    /\ UNCHANGED << legVars, stopResolved >>

RateEnded ==
    /\ legPhase \in { "rate1", "rate2" }
    /\ ctxState = "running"
    /\ sourceNode.state = "started"
    /\ sourceNode.rem = 0
    /\ Commit(onended([World EXCEPT !.sourceNode.state = "ended"]))
    /\ legPhase' = "rateEnded"
    /\ UNCHANGED << legP, legR, legD, legT, stopResolved >>

RateStop ==
    /\ legPhase = "rate2"
    /\ Commit(stopAudio(World))
    /\ legPhase' = "rateStopped"
    /\ UNCHANGED << legP, legR, legD, legT, stopResolved >>

NextRate ==
    \/ RatePlay
    \/ RateResume
    \/ RateTick1
    \/ RateSet
    \/ RateTick2
    \/ RateEnded
    \/ RateStop

SpecRate == InitLeg /\ [][NextRate]_vars

\* C12: playback started at legP with rate legR and direction legD, the rate
\* set to r2 after legT ticks and stopAudio called after t2 further ticks
\* leaves currentPosition = clamp(legP + legD * (legT * legR + t2 * r2), 0,
\* duration); and getCurrentPosition does not jump at the rate change.
C12_RateChangeBookkeeping ==
    /\ [](legPhase = "rateStopped" =>
            LET t2 == currentTime - startTime - legT
            IN  currentPosition =
                  MaxOf(0, MinOf(legP + legD * (legT * legR + t2 * playbackRate),
                                 Duration(currentSongKey))))
    /\ [][ (legPhase = "rate1" /\ legPhase' = "rate2") =>
              getCurrentPosition(World') = getCurrentPosition(World) ]_vars

\* C13: the looping winding-sound source is live only while the transport
\* mode is Rewinding or FastForwarding: never in Idle and never in Playing
\* mode, whatever speed is selected.
C13_WindOnlyWhileWinding ==
    (windSources # {} \/ fastWindTapeSource # NoSource)
        => active \cap {"rewind", "fastForward"} # {}

\* C14: when resuming the suspended audio context fails, the play action that
\* asked for it starts no playback (no source node is created, isPlaying stays
\* false) and nothing is thrown; pressing the same transport button again
\* attempts the resume again.
C14_ResumeFailure ==
    [][ /\ (Ran(trace', "resumed") /\ ctxState' = "suspended") =>
              /\ ~Has(trace', "sourceStart")
              /\ ~Has(trace', "throw")
              /\ sourceNode' = sourceNode
              /\ isPlaying' = isPlaying
        /\ \A b \in Buttons :
              ( /\ Pressed(trace', b)
                /\ ctxState = "suspended"
                /\ pendingResume = 0
                /\ active = {b} )
              => Has(trace', "resume") ]_vars

(***************************************************************************)
(* Start-up: the AudioPlayer constructor calls initialize() and drops its  *)
(* promise; UIManager.init calls initialize() again and awaits it.  Each   *)
(* call loads every asset; loadAllAudio rejects if any asset fails.        *)
(***************************************************************************)
\* the sets of assets whose fetch or decode fails in one load
FailSets == { {} } \cup { {a} : a \in AudioPaths } \cup { AudioPaths }

\* the continuation of AudioPlayer.initialize() after loadAllAudio settled
initializeSettled(w, who, failed) ==
    IF failed # {}
    THEN Emit([w EXCEPT !.loads[who] = "failed"], <<"loadFailed">>)
    ELSE LET buffers == AudioPaths
         IN  [w EXCEPT !.loads[who] = "loaded",
                       !.audioBuffers =
                           buffers \cup { Reversed(k) : k \in Songs \cap buffers }]

\* the rest of UIManager.init after `await this.audioPlayer.initialize()`
UIManager_init(w) ==
    IF w.loads["init"] = "failed"
    THEN [w EXCEPT !.loadingMessage = "Failed to load audio."]
    ELSE [w EXCEPT !.listenersAttached = TRUE,
                   !.buttonsDisabled = FALSE,
                   !.loadingMessage = "removed"]

InitLoad ==
    /\ InitEngine
    /\ audioBuffers = {}
    /\ loads = [ c \in { "constructor", "init" } |-> "pending" ]
    /\ buttonsDisabled = TRUE
    /\ listenersAttached = FALSE
    /\ loadingMessage = "Loading..."
    /\ legP = 0 /\ legR = NormalRate /\ legD = 1 /\ legT = 0
    /\ legPhase = "none"
    /\ stopResolved = FALSE
    /\ bufferStore = << >> /\ bufferRefs = << >>

\* the load started by the constructor settles; nothing awaits it
ConstructorLoadSettle ==
    /\ loads["constructor"] = "pending"
    /\ \E failed \in FailSets :
           Commit(initializeSettled(Emit(World, <<"load", "constructor">>),
                                    "constructor", failed))
    /\ UNCHANGED << legVars, stopResolved >>

\* the load awaited by UIManager.init settles and init runs on
InitLoadSettle ==
    /\ loads["init"] = "pending"
    /\ \E failed \in FailSets :
           Commit(UIManager_init(
                      initializeSettled(Emit(World, <<"load", "init">>),
                                        "init", failed)))
    /\ UNCHANGED << legVars, stopResolved >>

\* the two loads beside the transport; which assets are there does not depend
\* on the cursor, so the audio clock stands still here
NextLoad ==
    \/ ConstructorLoadSettle
    \/ InitLoadSettle
    \/ PlayClick
    \/ RewindClick
    \/ FastForwardClick
    \/ StopClick
    \/ StopTimerFire
    \/ SongChange
    \/ ResumeSettle

SpecLoad == InitLoad /\ [][NextLoad]_vars

\* C15: if any asset fails to load during initialization the failure reaches
\* UIManager.init (failure message shown), the transport buttons stay
\* disabled and no transport listener is attached; audioBuffers never holds
\* a partial asset set: it holds every asset of one load (with the reversed
\* buffers) or none, and with none playAudio does nothing.
C15_LoadFailureIsFatal ==
    /\ audioBuffers \in { {}, AllBuffers }
    /\ audioBuffers = {} => playAudio(World) = World
    /\ ( /\ \A c \in DOMAIN loads : loads[c] # "pending"
         /\ \E c \in DOMAIN loads : loads[c] = "failed" )
       => /\ buttonsDisabled
          /\ ~listenersAttached
          /\ loadingMessage = "Failed to load audio."

(***************************************************************************)
(* The effect buttons beside the transport: EffectControls delivers a      *)
(* click on an effect button to toggleEffect and flips the button's class. *)
(* What the effect graph looks like does not depend on the cursor, so the  *)
(* audio clock stands still here.                                          *)
(***************************************************************************)
ToggleEffect ==
    /\ listenersAttached
    /\ \E e \in Effects :
          Commit(handleEffectToggle(Emit(World, <<"toggle", e>>), e))
    /\ UNCHANGED << legVars, stopResolved >>

NextFx ==
    \/ ToggleEffect
    \/ PlayClick
    \/ FastForwardClick
    \/ StopClick
    \/ StopTimerFire
    \/ ResumeSettle

SpecFx == Init /\ [][NextFx]_vars

\* C16: toggleEffect never aborts: after any sequence of effect toggles, plays
\* and stops, a click on an effect button returns normally, flips
\* effectsEnabled[name] once and leaves the button's active class equal to
\* effectsEnabled[name].
C16_ToggleNeverAborts ==
    [][ Ran(trace', "toggle") =>
          LET e == trace'[1][2]
          IN  /\ ~Has(trace', "throw")
              /\ effectsEnabled'[e] = ~effectsEnabled[e]
              /\ effectButtons'[e] = effectsEnabled'[e] ]_vars

\* C17: while a main source is live (the one this.sourceNode refers to, or a
\* started one no field refers to), whatever effects were toggled in whatever
\* order, the source is connected through exactly one unity-gain dry node to
\* the master bus.
C17_DryPathAlways ==
    /\ sourceNode.state = "started" => sourceNode.out.dry = 1
    /\ \A o \in DOMAIN orphans : o.out.dry = 1

\* a live main source after a toggle, with all three effects enabled
C17_Witness ==
    /\ sourceNode.state = "started"
    /\ Ran(trace, "toggle")
    /\ \A e \in Effects : effectsEnabled[e]
    /\ sourceNode.out.dry = 1
    /\ sourceNode.out.peakingFilter
    /\ sourceNode.out.delayNode

\* a chain of connections through the effect nodes
Wired(path) ==
    \A i \in 1..(Len(path) - 1) : <<path[i], path[i + 1]>> \in connections

\* C18: whenever a main source is live and gramophone or echo is enabled, the
\* source feeds that effect's chain and the chain's output node is connected
\* to the master bus; whenever crackle is enabled, the gain node of its
\* started noise generator is connected to the master bus.
C18_EnabledEffectsWired ==
    /\ (sourceNode.state = "started" /\ effectsEnabled["gramophone"])
         => /\ sourceNode.out.peakingFilter
            /\ Wired(<<"peakingFilter", "lowShelfFilter", "highShelfFilter",
                       "gainNode", "masterGain">>)
    /\ (sourceNode.state = "started" /\ effectsEnabled["echo"])
         => /\ sourceNode.out.delayNode
            /\ Wired(<<"delayNode", "wetGain", "masterGain">>)
    /\ effectsEnabled["crackle"]
         => /\ effectStates.crackle
            /\ Wired(<<"crackleSource", "bandpass", "crackleGain",
                       "masterGain">>)

\* the outputs of every live main source
LiveOuts ==
    (IF sourceNode.state = "started" THEN { sourceNode.out } ELSE {})
        \cup { o.out : o \in DOMAIN orphans }

\* the gramophone chain carries what enters peakingFilter to the master bus
GramophoneToMaster ==
    /\ Wired(<<"peakingFilter", "lowShelfFilter", "highShelfFilter">>)
    /\ \/ Wired(<<"highShelfFilter", "gainNode">>)
       \/ Wired(<<"highShelfFilter", "pitchShifter", "distortion", "gainNode">>)
    /\ Wired(<<"gainNode", "masterGain">>)

\* C19: while an effect is disabled no path leads from a live source, or from
\* a started noise generator of that effect, through the effect's nodes to the
\* master bus; with all three disabled a live source reaches the master bus
\* through the dry path only.
C19_DisabledEffectsSilent ==
    /\ ~effectsEnabled["gramophone"]
         => /\ \A out \in LiveOuts : ~(out.peakingFilter /\ GramophoneToMaster)
            /\ ~(effectStates.noiseSource
                   /\ Wired(<<"noiseSource", "noiseGain", "masterGain">>))
    /\ ~effectsEnabled["echo"]
         => \A out \in LiveOuts :
               ~(out.delayNode /\ Wired(<<"delayNode", "wetGain", "masterGain">>))
    /\ ~effectsEnabled["crackle"]
         => ~(effectStates.crackle
                /\ Wired(<<"crackleSource", "bandpass", "crackleGain",
                           "masterGain">>))
    /\ (\A e \in Effects : ~effectsEnabled[e])
         => \A out \in LiveOuts : out = [NoOut EXCEPT !.dry = 1]

\* C20: with effectsEnabled fixed, applyEffects called twice in a row on a
\* source leaves the same paths from the source to the master bus, and the
\* same connections between the effect nodes, as one call: one dry path, one
\* path into each enabled routed effect, nothing connected twice.
C20_ApplyEffectsIdempotent ==
    \A src \in LiveOuts \cup { NoOut } :
        LET once == applyEffects(World, src)
            twice == applyEffects(once.w, once.out)
        IN  /\ twice.out = once.out
            /\ twice.w = once.w
            /\ once.out.dry = 1
            /\ once.out.peakingFilter = effectsEnabled["gramophone"]
            /\ once.out.delayNode = effectsEnabled["echo"]

\* a toggle re-applied the effects to a live source that had been routed when
\* it was started, with gramophone and echo enabled
C20_Witness ==
    /\ Ran(trace, "toggle")
    /\ ~Has(trace, "throw")
    /\ sourceNode.state = "started"
    /\ effectsEnabled["gramophone"] /\ effectsEnabled["echo"]
    /\ sourceNode.out = [ dry |-> 1, peakingFilter |-> TRUE, delayNode |-> TRUE ]
    /\ applyEffects(World, sourceNode.out).out = sourceNode.out

\* C21: for the crackle effect, under any sequence of toggles, plays and
\* stops, at most one noise generator is started at a time, and start() is
\* only ever invoked on a generator that has never been started: every
\* re-enable after a disable starts a freshly created generator.
C21_CrackleGeneratorFresh ==
    /\ effectStates.crackleLive <= 1
    /\ \A i \in DOMAIN trace :
          trace[i][1] = "crackleStart" => trace[i][2] = "Fresh"
    /\ effectStates.crackle <=> effectStates.crackleSource = "Started"

\* crackle is enabled again after it was disabled: a stop had disconnected the
\* crackle gain node, the disable in stopCrackle built a new gain node and
\* generator, and this toggle started that generator
C21_Witness ==
    /\ Ran(trace, "toggle")
    /\ Has(trace, "crackleStart")
    /\ effectStates.crackleSource = "Started"
    /\ effectStates.crackleLive = 1
    /\ <<"peakingFilter", "lowShelfFilter">> \notin connections
    /\ <<"crackleGain", "masterGain">> \in connections

(***************************************************************************)
(* A leg that is switched on the way: playAudio() at legP with direction   *)
(* legD and rate legR, legT ticks of the audio clock, switchPlayback to    *)
(* another (direction, rate), further ticks, stopAudio()                   *)
(***************************************************************************)
SwPlay ==
    /\ legPhase = "ready"
    /\ Commit(playAudio(World))
    /\ legPhase' = "leg1"
    /\ UNCHANGED << legP, legR, legD, legT, stopResolved >>

SwResume ==
    /\ legPhase \in { "leg1", "leg2" }
    /\ pendingResume > 0
    /\ \E ok \in BOOLEAN : Commit(resumeSettled(World, ok))
    /\ UNCHANGED << legVars, stopResolved >>

SwTick1 ==
    /\ legPhase = "leg1"
    /\ ctxState = "running"
    /\ currentTime < MaxTime
    /\ Commit(clockTick(World))
    /\ legT' = legT + 1
    /\ UNCHANGED << legP, legR, legD, legPhase, stopResolved >>

SwSwitch ==
    /\ legPhase = "leg1"
    /\ isPlaying
    /\ \E newDirection \in {1, -1}, newRate \in SpeedOptions \cup {FastRate} :
          /\ <<newDirection, newRate>> # <<direction, playbackRate>>
          /\ Commit(AudioPlayer_switchPlayback(World, newDirection, newRate))
    /\ legPhase' = "leg2"
    /\ UNCHANGED << legP, legR, legD, legT, stopResolved >>

SwTick2 ==
    /\ legPhase = "leg2"
    /\ ctxState = "running"
    /\ currentTime < MaxTime
    /\ Commit(clockTick(World))
    /\ UNCHANGED << legVars, stopResolved >>

SwEnded ==
    /\ legPhase \in { "leg1", "leg2" }
    /\ ctxState = "running"
    /\ sourceNode.state = "started"
    /\ sourceNode.rem = 0
    /\ Commit(onended([World EXCEPT !.sourceNode.state = "ended"]))
    /\ legPhase' = "swEnded"
    /\ UNCHANGED << legP, legR, legD, legT, stopResolved >>

SwStop ==
    /\ legPhase = "leg2"
    /\ Commit(stopAudio(World))
    /\ legPhase' = "swStopped"
    /\ UNCHANGED << legP, legR, legD, legT, stopResolved >>

NextSwitch ==
    \/ SwPlay
    \/ SwResume
    \/ SwTick1
    \/ SwSwitch
    \/ SwTick2
    \/ SwEnded
    \/ SwStop

SpecSwitch == InitLeg /\ [][NextSwitch]_vars

Clamp(pos, songKey) == MaxOf(0, MinOf(pos, Duration(songKey)))

\* the ticks of the second leg: the clock only runs once the context is
\* running, and the first leg starts at that moment
SecondLeg == currentTime - legT

\* where the first leg had got to when it was switched
SwitchedAt == Clamp(legP + legT * legR * legD, currentSongKey)

\* C22: from position p, forward for t ticks at rate r, switched to reverse at
\* the same rate, reverse for the same t ticks, then stopped: currentPosition
\* is p again, provided neither leg reaches 0 or the duration.
C22_ReversalRoundTrip ==
    ( /\ legPhase = "swStopped"
      /\ legD = 1 /\ direction = -1
      /\ playbackRate = legR
      /\ legT > 0
      /\ SecondLeg = legT
      /\ legP > 0
      /\ legP + legT * legR < Duration(currentSongKey) )
    => currentPosition = legP

\* a forward leg of one tick or more from inside the song, reversed at the
\* same rate for as long, and stopped
C22_Witness ==
    /\ legPhase = "swStopped"
    /\ legD = 1 /\ direction = -1
    /\ playbackRate = legR
    /\ legT > 0
    /\ SecondLeg = legT
    /\ legP > 0
    /\ legP + legT * legR < Duration(currentSongKey)
    /\ currentPosition = legP
    /\ ~isPlaying

\* C23: switchPlayback to a different (direction, rate) while playing keeps
\* the cursor: the new leg starts from clamp(p + t*r*d) of the old leg, the
\* new source starts at that offset when forward and at duration minus it
\* when reverse, and from there getCurrentPosition and the currentPosition
\* left by stopAudio follow the new direction and rate, clamped to the song.
C23_SwitchPreservesCursor ==
    /\ [][ (legPhase = "leg1" /\ legPhase' = "leg2") =>
             /\ currentPosition' = SwitchedAt
             /\ getCurrentPosition(World') = SwitchedAt
             /\ <<direction', playbackRate'>> # <<direction, playbackRate>>
             /\ isPlaying' \/ pendingResume' > 0 ]_vars
    /\ [][ (legPhase' = "leg2" /\ isPlaying' /\ (legPhase = "leg1" \/ ~isPlaying)) =>
             LET dur == Duration(currentSongKey)
                 offset == IF direction' = 1 THEN SwitchedAt
                           ELSE dur - SwitchedAt
             IN  /\ sourceNode'.state = "started"
                 /\ sourceNode'.rate = playbackRate'
                 /\ sourceNode'.rem = dur - offset
                 /\ startTime' = currentTime'
                 /\ getCurrentPosition(World') = SwitchedAt ]_vars
    /\ [](legPhase = "leg2" =>
            getCurrentPosition(World) =
               Clamp(SwitchedAt + SecondLeg * playbackRate * direction,
                     currentSongKey))
    /\ [](legPhase = "swStopped" =>
            currentPosition =
               Clamp(SwitchedAt + SecondLeg * playbackRate * direction,
                     currentSongKey))

\* a reverse leg that ran into the start of the song after a forward leg, as
\* in forward to position 10, reverse at rate 5 for 2 s: the cursor is 0
C23_Witness ==
    /\ legPhase = "swStopped"
    /\ legD = 1 /\ direction = -1
    /\ legT > 0 /\ SecondLeg > 0
    /\ SwitchedAt > 0
    /\ SwitchedAt - SecondLeg * playbackRate <= 0
    /\ currentPosition = 0

\* C24: lock-step animation: whenever the engine is playing and the spool
\* animation loop is running, the rate and direction the loop advances the
\* angles with are the engine's playbackRate and direction, also after the
\* speed selector was changed during playback.
C24_AnimationLockStep ==
    (isPlaying /\ isAnimating) =>
        (animRate = playbackRate /\ animDir = direction)

(***************************************************************************)
(* AnimationManager on its own: startAnimation, stopAnimation, a resize of *)
(* the window, and the display refreshes that run the callbacks pending in *)
(* requestAnimationFrame's list                                            *)
(***************************************************************************)
MaxFrames == 4

RECURSIVE RunFrames(_, _, _)
\* the callbacks of one refresh, in the order of their ids
RunFrames(w, pending, timestamp) ==
    IF pending = {} THEN w
    ELSE LET f == CHOOSE g \in pending : \A h \in pending : g.id <= h.id
         IN  RunFrames(animate(w, timestamp, f.rate, f.dir),
                       pending \ {f}, timestamp)

resizeCanvas(w) == drawSpools(w)

AnimStart ==
    /\ \E rate \in SpeedOptions \cup {FastRate}, dir \in {1, -1} :
          Commit(startAnimation(Emit(World, <<"startAnimation">>), rate, dir))
    /\ UNCHANGED << legVars, stopResolved >>

AnimStop ==
    /\ Commit(stopAnimation(Emit(World, <<"stopAnimation">>)))
    /\ UNCHANGED << legVars, stopResolved >>

AnimResize ==
    /\ Commit(resizeCanvas(Emit(World, <<"resize">>)))
    /\ UNCHANGED << legVars, stopResolved >>

\* a display refresh: the callbacks requested before it run with its
\* timestamp; what they request waits for the next refresh
DisplayRefresh ==
    /\ \E d \in 1..2 :
          /\ animation.now + d <= MaxFrames
          /\ Commit(RunFrames([World EXCEPT !.animation.now = @ + d,
                                            !.animation.frames = {}],
                              animation.frames, animation.now + d))
    /\ UNCHANGED << legVars, stopResolved >>

TimerStart ==
    /\ Commit(TimerDisplay_start(Emit(World, <<"timerStart">>)))
    /\ UNCHANGED << legVars, stopResolved >>

TimerStop ==
    /\ Commit(TimerDisplay_stop(Emit(World, <<"timerStop">>)))
    /\ UNCHANGED << legVars, stopResolved >>

NextAnim ==
    \/ AnimStart
    \/ AnimStop
    \/ AnimResize
    \/ DisplayRefresh
    \/ TimerStart
    \/ TimerStop

SpecAnim == Init /\ [][NextAnim]_vars

\* C25: stopAnimation leaves both spool angles unchanged, and once it has
\* returned no animate callback runs (no angle change, no redraw by the
\* loop) until the next startAnimation.
C25_StopAnimationHalts ==
    /\ [][ Ran(trace', "stopAnimation") =>
             /\ animation'.spools = animation.spools
             /\ ~isAnimating'
             /\ animation'.frames = {} ]_vars
    /\ [](~isAnimating => animation.frames = {})
    /\ [][ ~isAnimating =>
             /\ ~Has(trace', "animate")
             /\ animation'.spools = animation.spools ]_vars

\* a refresh of the display went by after a loop that had turned the spools
\* was stopped
C25_Witness ==
    /\ ~isAnimating
    /\ animation.spools.left # 0
    /\ animation.lastTimestamp # NoFrame
    /\ animation.lastTimestamp < animation.now
    /\ trace = << >>

(***************************************************************************)
(* The engine driven through its methods, with any of the songs' buffers   *)
(* missing: playAudio, stopAudio, switchPlayback, the audio clock, resume  *)
(* settling, end of media                                                  *)
(***************************************************************************)
InitApi ==
    /\ InitEngine
    /\ \E missing \in SUBSET Songs : audioBuffers = AllBuffers \ missing
    /\ loads = [ c \in { "constructor", "init" } |-> "loaded" ]
    /\ buttonsDisabled = FALSE
    /\ listenersAttached = TRUE
    /\ loadingMessage = "removed"
    /\ legP = 0 /\ legR = NormalRate /\ legD = 1 /\ legT = 0
    /\ legPhase = "none"
    /\ stopResolved = FALSE
    /\ bufferStore = << >> /\ bufferRefs = << >>

ApiPlayAudio ==
    /\ Room
    /\ Commit(playAudio(Emit(World, <<"playAudio">>)))
    /\ UNCHANGED << legVars, stopResolved >>

ApiStopAudio ==
    /\ Commit(stopAudio(Emit(World, <<"stopAudio">>)))
    /\ UNCHANGED << legVars, stopResolved >>

ApiSwitchPlayback ==
    /\ Room
    /\ \E newDirection \in {1, -1}, newRate \in {NormalRate, FastRate} :
          Commit(AudioPlayer_switchPlayback(Emit(World, <<"switchPlayback">>),
                                            newDirection, newRate))
    /\ UNCHANGED << legVars, stopResolved >>

ApiSetCurrentSong ==
    /\ Room
    /\ \E k \in Songs \ {currentSongKey} :
          Commit(setCurrentSong(Emit(World, <<"setCurrentSong", k>>), k))
    /\ UNCHANGED << legVars, stopResolved >>

NextApi ==
    \/ ApiPlayAudio
    \/ ApiStopAudio
    \/ ApiSwitchPlayback
    \/ ApiSetCurrentSong
    \/ Tick
    \/ ResumeSettle
    \/ EndOfMedia

SpecApi == InitApi /\ [][NextApi]_vars

EngineState ==
    << isPlaying, direction, playbackRate, currentPosition, startTime,
       sourceNode >>

\* C26: playAudio when already playing or when the current song's buffer is
\* missing, and stopAudio when not playing, change no engine state
\* (isPlaying, direction, playbackRate, currentPosition, startTime,
\* sourceNode) and emit neither playbackStopped nor playbackEnded.
C26_GuardedCallsAreNoOps ==
    [][ ( \/ /\ Ran(trace', "playAudio")
             /\ isPlaying \/ currentSongKey \notin audioBuffers
          \/ /\ Ran(trace', "stopAudio")
             /\ ~isPlaying )
        => /\ EngineState' = EngineState
           /\ ~Has(trace', "playbackStopped")
           /\ ~Has(trace', "playbackEnded") ]_vars

\* playAudio was called on an engine that had been playing for a while
C26_Witness ==
    /\ trace = << <<"playAudio">> >>
    /\ isPlaying
    /\ currentSongKey \in audioBuffers
    /\ currentTime > startTime

\* C27: whenever a playbackStopped or playbackEnded listener runs, the
\* engine already has isPlaying = false, sourceNode = null and
\* currentPosition finalized (the elapsed time of the playback that was
\* under way folded in) and clamped to the song.
C27_ListenersSeeFinalState ==
    [][ \A i \in DOMAIN trace' :
          trace'[i][1] = "listener" =>
             /\ trace'[i][3] = FALSE
             /\ trace'[i][4] = "null"
             /\ trace'[i][5] \in 0..Duration(currentSongKey')
             /\ trace'[i][5] =
                  IF isPlaying
                  THEN Clamp(currentPosition
                               + (currentTime - startTime)
                                   * playbackRate * direction,
                             currentSongKey')
                  ELSE currentPosition ]_vars

\* C28: the ended notification of a main source created before the one the
\* engine is playing neither stops nor deactivates that playback: the engine
\* keeps playing the same source and the transport is not deactivated.
C28_StaleEndedIsInert ==
    [][ (Ran(trace', "ended") /\ orphans' # orphans /\ isPlaying) =>
           /\ isPlaying'
           /\ sourceNode' = sourceNode
           /\ ~Has(trace', "playbackStopped")
           /\ ~Has(trace', "deactivate") ]_vars

(***************************************************************************)
(* A single Stop click followed, inside its 250 ms window, by transport    *)
(* presses: from an idle engine at an arbitrary cursor, a Stop click arms  *)
(* the timer, Play / Rewind / FastForward are pressed, the audio clock may *)
(* advance, pending resumes may settle, the timer expires                  *)
(***************************************************************************)
StClick ==
    /\ legPhase = "ready"
    /\ Commit(handleStopButtonClick(Emit(World, <<"stopClick">>)))
    /\ legPhase' = "armed"
    /\ UNCHANGED << legP, legR, legD, legT, stopResolved >>

StPress ==
    /\ legPhase \in { "armed", "pressed" }
    /\ Room
    /\ \/ Commit(handlePlayClick(Emit(World, <<"press", "play">>)))
       \/ Commit(handleRewindClick(Emit(World, <<"press", "rewind">>)))
       \/ Commit(handleFastForwardClick(
                     Emit(World, <<"press", "fastForward">>)))
    /\ legPhase' = "pressed"
    /\ UNCHANGED << legP, legR, legD, legT, stopResolved >>

StTick ==
    /\ legPhase \in { "armed", "pressed" }
    /\ ctxState = "running"
    /\ currentTime < MaxTime
    /\ Commit(clockTick(World))
    /\ UNCHANGED << legVars, stopResolved >>

StExpire ==
    /\ legPhase \in { "armed", "pressed" }
    /\ timerArmed
    /\ Commit(stopClickTimeoutCallback(
                  Emit([World EXCEPT !.timerArmed = FALSE], <<"timeout">>)))
    /\ legPhase' = IF legPhase = "pressed" THEN "expired" ELSE "done"
    /\ UNCHANGED << legP, legR, legD, legT, stopResolved >>

NextStop ==
    \/ StClick
    \/ StPress
    \/ StTick
    \/ StExpire
    \/ ResumeSettle
    \/ EndOfMedia

\* the direction and rate of the idle engine are overwritten by the press
InitStop == InitLeg /\ legD = 1 /\ legR = NormalRate

SpecStop == InitStop /\ [][NextStop]_vars

\* C29: a transport press inside the window of a single Stop click does not
\* cancel the pending click; at expiry the single-click action runs and
\* stops the playback the press started, leaving the system Idle with the
\* cursor where that playback had reached.
C29_PendingStopSurvivesPress ==
    /\ [][ (legPhase' = "pressed" /\ Has(trace', "press")) =>
              (timerArmed' /\ stopClickTimeout') ]_vars
    /\ [][ (legPhase = "pressed" /\ legPhase' = "expired") =>
              /\ Has(trace', "stopSingle")
              /\ Idle'
              /\ currentPosition' =
                   IF isPlaying
                   THEN Clamp(currentPosition
                                + (currentTime - startTime)
                                    * playbackRate * direction,
                              currentSongKey)
                   ELSE currentPosition ]_vars

\* C30: a handler that takes isPlaying from true to false emits exactly one
\* playbackStopped, and none is emitted while the engine was not playing;
\* playbackEnded is emitted only by an end-of-media callback, once, for a
\* source that is gone afterwards, and only after the playbackStopped of
\* that same callback; stop, reset, switchPlayback and setCurrentSong never
\* emit it.
C30_StopEventsPairUp ==
    [][ /\ (isPlaying /\ ~isPlaying') => Count(trace', "playbackStopped") = 1
        /\ Count(trace', "playbackStopped") <= 1
        /\ Has(trace', "playbackStopped") => isPlaying
        /\ Has(trace', "playbackEnded") =>
              /\ Ran(trace', "ended")
              /\ Count(trace', "playbackEnded") = 1
              /\ LiveMainSources(World') < LiveMainSources(World)
              /\ \E i, j \in DOMAIN trace' :
                    /\ i < j
                    /\ trace'[i][1] = "playbackStopped"
                    /\ trace'[j][1] = "playbackEnded" ]_vars

\* C31: when playback stops because the end-of-media callback fired, the
\* finalized currentPosition is the duration for forward playback and 0 for
\* reverse playback, also for a leg during which setPlaybackRate was called.
C31_EndOfMediaCursor ==
    legPhase = "rateEnded" =>
        currentPosition = IF direction = 1 THEN Duration(currentSongKey) ELSE 0

\* C32: setCurrentSong(k) with k not loaded leaves currentSongKey, isPlaying,
\* currentPosition and the live source unchanged; with k loaded while
\* playing, the old source is stopped and playback is started on song k from
\* position 0 with the previous direction and rate (at once, or when the
\* resume it had to request settles); with k loaded while not playing,
\* isPlaying stays false.
C32_SetCurrentSong ==
    [][ Ran(trace', "setCurrentSong") =>
          LET k == trace'[1][2]
          IN  IF k \notin audioBuffers
              THEN /\ currentSongKey' = currentSongKey
                   /\ isPlaying' = isPlaying
                   /\ currentPosition' = currentPosition
                   /\ sourceNode' = sourceNode
              ELSE /\ currentSongKey' = k
                   /\ direction' = direction
                   /\ playbackRate' = playbackRate
                   /\ ~isPlaying => (~isPlaying' /\ sourceNode' = sourceNode)
                   /\ isPlaying =>
                        /\ Has(trace', "sourceStop")
                        /\ currentPosition' = 0
                        /\ \/ pendingResume' = pendingResume + 1
                           \/ /\ isPlaying'
                              /\ sourceNode'.state = "started"
                              /\ sourceNode'.rate = playbackRate
                              /\ startTime' = currentTime
                              /\ sourceNode'.rem =
                                   IF direction = 1 THEN Duration(k) ELSE 0
        ]_vars

\* the song was changed some way into a playback, which restarted on it
C32_Witness ==
    /\ Ran(trace, "setCurrentSong")
    /\ Has(trace, "sourceStop")
    /\ Has(trace, "sourceStart")
    /\ isPlaying
    /\ currentPosition = 0
    /\ startTime > 0

\* C33: at most one winding-sound source is live at any time, and it is the
\* one fastWindTapeSource refers to; a winding-sound source is started while
\* one is live only after that one was stopped; after stopFastWindTape (with
\* no start after it) none is live and fastWindTapeSource is null.
C33_OneWindingSource ==
    /\ [](/\ Cardinality(windSources) <= 1
          /\ fastWindTapeSource = NoSource <=> windSources = {}
          /\ fastWindTapeSource # NoSource =>
                windSources = {fastWindTapeSource})
    /\ [][ Count(trace', "windStart") <= 1 ]_vars
    /\ [][ (fastWindTapeSource # NoSource /\ Has(trace', "windStart")) =>
              /\ Has(trace', "windStop")
              /\ First(trace', "windStop") < First(trace', "windStart") ]_vars
    /\ [][ (Has(trace', "windStop") /\ ~Has(trace', "windStart")) =>
              (windSources' = {} /\ fastWindTapeSource' = NoSource) ]_vars

\* Rewind pressed while the winding sound started by an earlier press is
\* live and the engine still waits for the context to resume: nothing was
\* stopped, startFastWindTape ran and started no second source
C33_Witness ==
    /\ Pressed(trace, "rewind")
    /\ Has(trace, "resume")
    /\ ~Has(trace, "windStart")
    /\ ~Has(trace, "windStop")
    /\ Cardinality(windSources) = 1
    /\ direction = -1
    /\ pendingResume = 2

\* C34: at most one animation frame callback is pending and at most one
\* ticker interval is active at any time; startAnimation while animating and
\* TimerDisplay.start while started create no second one; after
\* stopAnimation and TimerDisplay.stop none is pending.
C34_OneLoopOneTicker ==
    /\ [](/\ Cardinality(animation.frames) <= 1
          /\ intervals <= 1
          /\ isAnimating <=> animation.frames # {}
          /\ intervalId <=> intervals = 1)
    /\ [][ (Ran(trace', "startAnimation") /\ isAnimating) =>
              animation' = animation ]_vars
    /\ [][ (Ran(trace', "timerStart") /\ intervalId) =>
              intervals' = intervals ]_vars
    /\ [][ Ran(trace', "stopAnimation") => animation'.frames = {} ]_vars
    /\ [][ Ran(trace', "timerStop") => intervals' = 0 ]_vars

\* startAnimation on a loop that has drawn frames (a start that takes effect
\* clears lastTimestamp), with the ticker running
C34_Witness ==
    /\ Ran(trace, "startAnimation")
    /\ isAnimating
    /\ animation.lastTimestamp # NoFrame
    /\ animation.spools.left # 0
    /\ intervals = 1

\* C35: time spent with the animation stopped contributes no rotation: the
\* first frame after a (re)start advances both angles by 0, every later
\* frame advances both by (time since the previous frame) * rate * direction
\* in units of spoolSpeed, and the two spool angles stay equal.  A start that
\* takes effect leaves no earlier frame to measure the first one from.
C35_RotationPerFrame ==
    /\ [](animation.spools.left = animation.spools.right)
    /\ [][ (Ran(trace', "startAnimation") /\ ~isAnimating) =>
             /\ animation'.lastTimestamp = NoFrame
             /\ animation'.spools = animation.spools ]_vars
    /\ [][ Has(trace', "animate") =>
             \A f \in animation.frames :
                LET deltaTime == IF animation.lastTimestamp = NoFrame
                                 THEN 0
                                 ELSE animation'.now - animation.lastTimestamp
                    rotation == deltaTime * f.rate * f.dir
                IN  /\ animation'.spools.left =
                          animation.spools.left + rotation
                    /\ animation'.spools.right =
                          animation.spools.right + rotation ]_vars

\* the first frame of a loop at normal rate, restarted after a loop at rate
\* 0.8 had turned the spools for one tick and was stopped: the angle is still
\* what the first loop left
C35_Witness ==
    /\ Has(trace, "animate")
    /\ isAnimating
    /\ animRate = NormalRate /\ animDir = 1
    /\ animation.spools.left = 4
    /\ animation.lastTimestamp = animation.now
    /\ animation.now = MaxFrames

(***************************************************************************)
(* bufferLoader.createReversedBuffer.  An AudioBuffer is an object of the  *)
(* context, held by reference: bufferStore[r] is the object behind the     *)
(* reference r, with its channel count, its length in sample frames, its   *)
(* sample rate and the Float32Array of each channel.  bufferRefs holds the *)
(* references of the caller: the decoded buffer (or null), the result of   *)
(* reversing it, the result of reversing that.                             *)
(***************************************************************************)
MaxChannels == 2
MaxLength == 3
\* the sample values told apart; no arithmetic is done on samples
Samples == { 0, 1 }
MaxReversals == 2

NullBuffer == 0

createReversedBuffer_inPlace(w, buffer) ==
    IF buffer = NullBuffer
    THEN [ w |-> Emit(w, <<"warn">>), result |-> NullBuffer ]
    ELSE LET b == w.bufferStore[buffer]
             w1 == [w EXCEPT !.bufferStore[buffer].channelData =
                        [ c \in 1..b.numberOfChannels |->
                            [ i \in 1..b.length |->
                                b.channelData[c][b.length - (i - 1)] ] ]]
         IN  [ w |-> w1, result |-> buffer ]

createReversedBuffer(w, buffer) ==
    IF buffer = NullBuffer
    THEN \* console.warn, return null
         [ w |-> Emit(w, <<"warn">>), result |-> NullBuffer ]
    ELSE LET b == w.bufferStore[buffer]
             \* audioContext.createBuffer: a new, zero-filled object
             w1 == [w EXCEPT !.bufferStore = Append(@,
                        [ numberOfChannels |-> b.numberOfChannels,
                          length |-> b.length,
                          sampleRate |-> b.sampleRate,
                          channelData |->
                              [ c \in 1..b.numberOfChannels |->
                                  [ i \in 1..b.length |-> 0 ] ] ])]
             reversedBuffer == Len(w1.bufferStore)
             \* reversedData[i] = channelData[channelData.length - i - 1]
             \* for i = 0 .. length - 1; the arrays here start at 1
             w2 == [w1 EXCEPT !.bufferStore[reversedBuffer].channelData =
                        [ c \in 1..b.numberOfChannels |->
                            [ i \in 1..b.length |->
                                w1.bufferStore[buffer].channelData[c]
                                    [(b.length - (i - 1) - 1) + 1] ] ]]
         IN  [ w |-> w2, result |-> reversedBuffer ]

\* a decoded buffer of at least one channel and one frame, or no buffer
InitReverse ==
    /\ InitPlayer
    /\ legP = 0 /\ legR = NormalRate /\ legD = 1 /\ legT = 0
    /\ legPhase = "none"
    /\ stopResolved = FALSE
    /\ bufferStore \in { << >> } \cup
           UNION { { << [ numberOfChannels |-> n, length |-> len,
                          sampleRate |-> rate, channelData |-> d ] >> :
                     d \in [ 1..n -> [ 1..len -> Samples ] ] } :
                   n \in 1..MaxChannels, len \in 1..MaxLength,
                   rate \in { 44100, 48000 } }
    /\ bufferRefs = << IF bufferStore = << >> THEN NullBuffer ELSE 1 >>

\* reversed = createReversedBuffer(audioContext, the last buffer obtained)
ReverseBuffer ==
    /\ Len(bufferRefs) <= MaxReversals
    /\ LET buffer == bufferRefs[Len(bufferRefs)]
           r == createReversedBuffer(
                    Emit(World, <<"createReversedBuffer", buffer>>), buffer)
       IN  Commit([r.w EXCEPT !.bufferRefs = Append(@, r.result)])
    /\ UNCHANGED << legVars, stopResolved >>

SpecReverse == InitReverse /\ [][ReverseBuffer]_vars

\* C36: createReversedBuffer returns a new buffer with the channel count and
\* length of its argument whose sample i (from 0) of every channel is sample
\* length - 1 - i of the argument; the buffers that existed before the call
\* are left as they were; the reversal of the reversal has the samples of the
\* original; for null it returns null, creates nothing and throws nothing.
C36_ReversedBuffer ==
    /\ [](\A k \in 2..Len(bufferRefs) :
            LET arg == bufferRefs[k - 1]
                res == bufferRefs[k]
            IN  IF arg = NullBuffer
                THEN res = NullBuffer /\ bufferStore = << >>
                ELSE /\ res \in DOMAIN bufferStore
                     /\ \A j \in 1..(k - 1) : bufferRefs[j] # res
                     /\ bufferStore[res].numberOfChannels =
                            bufferStore[arg].numberOfChannels
                     /\ bufferStore[res].length = bufferStore[arg].length
                     /\ \A c \in 1..bufferStore[arg].numberOfChannels :
                          /\ Len(bufferStore[res].channelData[c]) =
                                 bufferStore[arg].length
                          /\ \A i \in 0..(bufferStore[arg].length - 1) :
                               bufferStore[res].channelData[c][i + 1] =
                                   bufferStore[arg].channelData[c]
                                       [(bufferStore[arg].length - 1 - i) + 1]
                     /\ k = 3 => bufferStore[res].channelData =
                                     bufferStore[bufferRefs[1]].channelData)
    /\ [][Ran(trace', "createReversedBuffer") =>
            /\ ~Has(trace', "throw")
            /\ \A r \in DOMAIN bufferStore :
                   r \in DOMAIN bufferStore' /\ bufferStore'[r] = bufferStore[r]
         ]_vars

\* a stereo buffer whose channels are not palindromes, reversed twice
C36_Witness ==
    /\ Ran(trace, "createReversedBuffer")
    /\ Len(bufferRefs) = 3
    /\ Len(bufferStore) = 3
    /\ bufferStore[1].channelData = << <<0, 1, 1>>, <<1, 0, 0>> >>
    /\ bufferStore[2].channelData = << <<1, 1, 0>>, <<0, 0, 1>> >>
    /\ bufferStore[3].channelData = bufferStore[1].channelData

(***************************************************************************)
(* Master volume: AudioProcessor.setMasterVolume and the master volume     *)
(* slider of VolumeControls.  Volumes are in tenths (Unity is 1); the      *)
(* slider's value is the string the DOM hands to the handler, a sequence   *)
(* of characters.                                                          *)
(***************************************************************************)
\* setMasterVolume is called with volumes from -VolumeMargin tenths to
\* VolumeMargin tenths above 1
VolumeMargin == 5

\* the number no decimal string stands for
NaN == 0 - 1000

\* parseFloat of a string with at most one decimal place, in tenths: the
\* longest prefix of digits, then "." and a digit; NaN without any digit
parseFloat(s) ==
    LET Digit(c) == CASE c = "0" -> 0 [] c = "1" -> 1 [] c = "2" -> 2
                      [] c = "3" -> 3 [] c = "4" -> 4 [] c = "5" -> 5
                      [] c = "6" -> 6 [] c = "7" -> 7 [] c = "8" -> 8
                      [] c = "9" -> 9 [] OTHER -> NaN
        IsDigit(i) == i \in DOMAIN s /\ Digit(s[i]) # NaN
        n == CHOOSE k \in 0..Len(s) :
                 (\A i \in 1..k : IsDigit(i)) /\ ~IsDigit(k + 1)
        whole[k \in 0..n] ==
            IF k = 0 THEN 0 ELSE whole[k - 1] * 10 + Digit(s[k])
        point == n + 1 \in DOMAIN s /\ s[n + 1] = "."
        tenths == IF point /\ IsDigit(n + 2) THEN Digit(s[n + 2]) ELSE 0
    IN  IF n = 0 /\ ~(point /\ IsDigit(n + 2)) THEN NaN
        ELSE whole[n] * 10 + tenths

\* AudioProcessor.setMasterVolume(volume); masterGain exists once
\* initGainNodes has run
setMasterVolume(w, volume) ==
    LET clampedVolume == MinOf(IF volume > 0 THEN volume ELSE 0, Unity)
    IN  Emit([w EXCEPT !.masterGain = clampedVolume],
             <<"masterGain", clampedVolume>>)

\* VolumeControls.handleMasterVolumeChange(event):
\* volume = parseFloat(event.target.value) || 1
handleMasterVolumeChange(w, value) ==
    LET parsed == parseFloat(value)
        volume == IF parsed = NaN \/ parsed = 0 THEN Unity ELSE parsed
    IN  setMasterVolume(w, volume)

\* the user moves the master volume slider to n tenths; the input event
\* carries the slider's value as a decimal string
MasterVolumeInput ==
    /\ \E n \in 0..Unity :
         LET value == IF n = Unity THEN << "1" >>
                      ELSE IF n = 0 THEN << "0" >>
                      ELSE << "0", ".",
                              << "1", "2", "3", "4", "5",
                                 "6", "7", "8", "9" >>[n] >>
         IN  Commit(handleMasterVolumeChange(
                 Emit([World EXCEPT !.sliderValue = value],
                      <<"masterVolumeInput", n>>), value))
    /\ UNCHANGED << legVars, stopResolved >>

\* a direct call of setMasterVolume(v)
SetMasterVolume ==
    /\ \E v \in (0 - VolumeMargin)..(Unity + VolumeMargin) :
         Commit(setMasterVolume(Emit(World, <<"setMasterVolume", v>>), v))
    /\ UNCHANGED << legVars, stopResolved >>

NextVolume ==
    \/ MasterVolumeInput
    \/ SetMasterVolume

SpecVolume == Init /\ [][NextVolume]_vars

\* C37: the master gain is always between 0 and 1; setMasterVolume(v) sets
\* it to v limited to that range; moving the slider to any value from 0 to 1,
\* 0 included, makes the master gain that value.
C37_MasterGain ==
    /\ [](masterGain >= 0 /\ masterGain <= Unity)
    /\ [][Ran(trace', "setMasterVolume") =>
            LET v == trace'[1][2]
            IN  masterGain' = IF v < 0 THEN 0
                              ELSE IF v > Unity THEN Unity ELSE v]_vars
    /\ [][Ran(trace', "masterVolumeInput") =>
            masterGain' = trace'[1][2]]_vars
====
